---- MODULE Spec2Model ----
(***************************************************************************)
(* A model of the zen-mcp-server: the HTTP transport                       *)
(* (src/http_transport.py), the model-name validation and the calls of the *)
(* providers (src/providers), the ChatGPT login mode                       *)
(* (src/utils/chatgpt_auth.py) and the citation section of the research    *)
(* tool (src/tools/research.py).                                           *)
(*                                                                         *)
(* The specifications of the module:                                       *)
(*   SpecChunk  the pure function HTTPTransport._chunk_tools_response      *)
(*   Spec       POST /mcp: handle_mcp_request and _handle_mcp_message, one *)
(*              request after the other                                    *)
(*   SpecConcurrent  POST /mcp, requests interleaved at their suspension   *)
(*              points                                                     *)
(*   SpecModels validate_model_name of the Groq and Moonshot providers     *)
(*   SpecGenerate  generate_content of the Groq, OpenAI and Perplexity     *)
(*              providers                                                  *)
(*   SpecPerplexity  get_capabilities, validate_model_name,                *)
(*              supports_thinking_mode and _resolve_model_name of the      *)
(*              Perplexity provider                                        *)
(*   SpecAuth   get_valid_chatgpt_auth and the construction of             *)
(*              OpenAIModelProvider                                        *)
(*   SpecResearch  ResearchTool.format_response                            *)
(*   SpecInterference  POST /mcp, one request interleaved with initialize  *)
(*              requests of other clients                                  *)
(*   SpecFair   Spec, with the steps of an accepted request scheduled      *)
(*   SpecThinking  get_capabilities and supports_thinking_mode of the      *)
(*              OpenAI, Groq, Moonshot and Perplexity providers            *)
(*   SpecPreferred  OpenAIModelProvider.get_preferred_model                *)
(***************************************************************************)
EXTENDS Integers, Sequences, FiniteSets, TLC

(***************************************************************************)
(* Bounds of the model.                                                    *)
(***************************************************************************)
MaxTools == 3
MaxSessions == 2
MaxInFlight == 2
MaxAllowed == 2

\* the most keyword arguments of a call of generate_content
MaxParams == 2

\* the most providers constructed
MaxProviders == 2

\* the most segments of a response text
MaxSegments == 2

(***************************************************************************)
(* Program constants.                                                      *)
(***************************************************************************)
DEFAULT_CHUNK_SIZE_KB == 20
MIN_CHUNK_SIZE_KB == 8
MAX_CHUNK_SIZE_KB == 50

\* len(json.dumps(base_response)) without the text of the id and of the tools
\* array: {"jsonrpc": "2.0", "id": <id>, "result": {"tools": <array>}}
ENVELOPE_LEN == 49

\* json.dumps separates the items of an array by ", "
ITEM_SEPARATOR_LEN == 2

VARIABLES
    tools,          \* _chunk_tools_response: the tools argument
    message_id,     \* _chunk_tools_response: the message_id argument
    chunk_size_kb,  \* _chunk_tools_response: the chunk_size_kb argument
    chunks,         \* _chunk_tools_response: the returned list
    called          \* whether _chunk_tools_response has returned

chunkVars == <<tools, message_id, chunk_size_kb, chunks, called>>

VARIABLES
    sessions,       \* HTTPTransport.sessions: session id -> reference of its dictionary
    heap,           \* the session dictionaries, by reference: [initialized |-> BOOLEAN]
    req,            \* the POST /mcp requests in flight, one per slot
    initialize_served  \* history: the session ids of the requests of method initialize
                    \* whose generator has run (the requests logged at line 200)

httpVars == <<sessions, heap, req, initialize_served>>

VARIABLES
    provider,        \* the provider whose validate_model_name is called
    allowed_models,  \* the allow-list of the provider (GROQ_ALLOWED_MODELS, MOONSHOT_ALLOWED_MODELS)
    model_name,      \* validate_model_name: the model_name argument of the last call
    is_valid         \* validate_model_name: what the last call returned

modelVars == <<provider, allowed_models, model_name, is_valid>>

VARIABLES
    kwargs,             \* the keyword arguments of the call, by name
    max_output_tokens,  \* generate_content: the max_output_tokens argument
    capabilities,       \* what get_capabilities(model_name) ended with
    thinking,           \* what supports_thinking_mode(model_name) ended with
    perplexity_params,  \* what _extract_perplexity_params(model_name, kwargs) ended with
    parent_calls,       \* the calls of super().generate_content, in order
    vendor_calls,       \* the requests sent to the vendor API, in order
    parent_result,      \* what super().generate_content ended with
    generated           \* what generate_content ended with

callVars == <<kwargs, max_output_tokens, capabilities, thinking, perplexity_params, parent_calls,
              vendor_calls, parent_result, generated>>

VARIABLES
    login_mode,         \* os.environ: OPENAI_CHATGPT_LOGIN_MODE
    auth_file,          \* the file ~/.codex/auth.json
    file_reads,         \* how often the auth file has been looked at
    auth_result,        \* what get_valid_chatgpt_auth() ended with
    built,              \* the OpenAIModelProvider objects constructed, in order
    class_headers       \* the class attribute DEFAULT_HEADERS

authVars == <<login_mode, auth_file, file_reads, auth_result, built, class_headers>>

VARIABLES
    response_text,      \* format_response: the response argument
    model_info,         \* format_response: the model_info argument
    export_enabled,     \* RESEARCH_EXPORT_TO_MD is set and RESEARCH_DISABLE_EXPORT is not true
    formatted           \* what format_response ended with

researchVars == <<response_text, model_info, export_enabled, formatted>>

VARIABLES
    category,           \* get_preferred_model: the category argument
    allowed_list,       \* get_preferred_model: the allowed_models argument, a list
    preferred           \* what get_preferred_model ended with

prefVars == <<category, allowed_list, preferred>>

VARIABLES
    resolved,           \* what PerplexityProvider._resolve_model_name(model_name) ended with
    resolved_again      \* what _resolve_model_name of that result ended with

resolveVars == <<resolved, resolved_again>>

restVars == <<callVars, authVars, researchVars, prefVars, resolveVars>>

vars == <<chunkVars, httpVars, modelVars, restVars>>

(***************************************************************************)
(* JSON text lengths.  A message id is held as its JSON text; a tool is    *)
(* held by its name, the length of the JSON text of its dictionary form    *)
(* (name, description, inputSchema) and whether it is a Tool object or     *)
(* already a dictionary.                                                   *)
(***************************************************************************)
MessageIds == {"1", "null", "\"abc\""}

JsonLenId(id) ==
    CASE id = "1" -> 1
      [] id = "null" -> 4
      [] id = "\"abc\"" -> 5

RECURSIVE SumSizes(_)
SumSizes(tool_list) ==
    IF tool_list = <<>> THEN 0
    ELSE Head(tool_list).size + SumSizes(Tail(tool_list))

\* len(json.dumps(list)): brackets, items, ", " between items
JsonLenList(tool_list) ==
    2 + SumSizes(tool_list)
      + (IF Len(tool_list) > 0 THEN ITEM_SEPARATOR_LEN * (Len(tool_list) - 1) ELSE 0)

\* len(json.dumps(response)) of a tools response
JsonLenToolsResponse(response) ==
    ENVELOPE_LEN + JsonLenId(response.id) + JsonLenList(response.result.tools)

ToolsResponse(id, tool_list) ==
    [jsonrpc |-> "2.0", id |-> id, result |-> [tools |-> tool_list]]

(***************************************************************************)
(* HTTPTransport._chunk_tools_response                                     *)
(***************************************************************************)
\* lines 85-94: a Tool object is turned into its dictionary, a dictionary is kept
ToolData(tool) ==
    IF tool.isObject
    THEN [name |-> tool.name, size |-> tool.size, isObject |-> FALSE]
    ELSE tool

\* line 98, as a slip would write it: closes the chunk before the size is reached
MutExceedsChunk(current_size, tool_size, base_size, chunk_size_bytes, current_chunk) ==
    current_size + tool_size + base_size > chunk_size_bytes

\* line 98: would adding this tool exceed the chunk size
ExceedsChunk(current_size, tool_size, base_size, chunk_size_bytes, current_chunk) ==
    current_size + tool_size + base_size > chunk_size_bytes /\ current_chunk # <<>>

\* lines 84-114: the loop over the tools, from tool i on
RECURSIVE ChunkLoop(_, _, _, _, _, _, _)
ChunkLoop(tl, i, id, chunk_size_bytes, acc, current_chunk, current_size) ==
    IF i > Len(tl)
    THEN \* lines 116-123: the final chunk, if tools remain
         IF current_chunk # <<>>
         THEN Append(acc, ToolsResponse(id, current_chunk))
         ELSE acc
    ELSE LET tool_data == ToolData(tl[i])
             tool_size == tool_data.size
             base_size == JsonLenToolsResponse(ToolsResponse(id, <<>>))
         IN IF ExceedsChunk(current_size, tool_size, base_size, chunk_size_bytes, current_chunk)
            THEN ChunkLoop(tl, i + 1, id, chunk_size_bytes,
                           Append(acc, ToolsResponse(id, current_chunk)),
                           <<tool_data>>, tool_size)
            ELSE ChunkLoop(tl, i + 1, id, chunk_size_bytes, acc,
                           Append(current_chunk, tool_data), current_size + tool_size)

ChunkToolsResponse(tl, id, kb) ==
    ChunkLoop(tl, 1, id, kb * 1024, <<>>, <<>>, 0)

(***************************************************************************)
(* POST /mcp: the values a request is made of.                             *)
(***************************************************************************)
\* Python's None: an absent header, query parameter or message field
None == "<None>"

\* the methods _handle_mcp_message names (lines 203-343)
Methods ==
    {"initialize", "notifications/initialized", "tools/list", "tools/call",
     "prompts/list", "prompts/get", "ping"}

\* the methods whose branch awaits a handler of the server
HandlerOf(method) ==
    CASE method = "initialize" -> "_handle_initialize"
      [] method = "tools/list" -> "handle_list_tools"
      [] method = "tools/call" -> "handle_call_tool"
      [] method = "prompts/list" -> "handle_list_prompts"
      [] method = "prompts/get" -> "handle_get_prompt"
      [] OTHER -> None

\* session ids: the values uuid.uuid4() returns
Uuid(i) == "uuid-" \o ToString(i)

UUIDs == {Uuid(i) : i \in 1..MaxSessions}

\* line 148, as a slip would have it: an id that may be in use already
MutUuid4(taken) == UUIDs

\* line 148: uuid.uuid4() returns an id that is neither in use nor the one the
\* client has sent (uuid4 values are taken to be unique and not guessable)
Uuid4(taken) == UUIDs \ taken

\* lines 136-139: `"text/event-stream" in accept_header or "*/*" in accept_header`
HasEventStream(accept_header) ==
    accept_header \in {"text/event-stream", "application/json, text/event-stream"}

HasWildcard(accept_header) ==
    accept_header \in {"*/*", "text/html, */*"}

\* lines 136-143, as a slip would write them: the Accept header is not checked
MutAcceptOk(accept) == TRUE

AcceptOk(accept) ==
    LET accept_header == IF accept = None THEN "" ELSE accept
    IN ~(accept_header = "" \/ ~(HasEventStream(accept_header) \/ HasWildcard(accept_header)))

\* int(text) of a query parameter: the value (blanks around the digits are
\* skipped), or ValueError
ParseInt(text) ==
    CASE text = "-1" -> [ok |-> TRUE, value |-> -1]
      [] text = "0" -> [ok |-> TRUE, value |-> 0]
      [] text = "1" -> [ok |-> TRUE, value |-> 1]
      [] text = "2" -> [ok |-> TRUE, value |-> 2]
      [] text = "3" -> [ok |-> TRUE, value |-> 3]
      [] text = "8" -> [ok |-> TRUE, value |-> 8]
      [] text = " 8 " -> [ok |-> TRUE, value |-> 8]
      [] text = "30" -> [ok |-> TRUE, value |-> 30]
      [] text = "50" -> [ok |-> TRUE, value |-> 50]
      [] text = "100" -> [ok |-> TRUE, value |-> 100]
      [] text = "5000" -> [ok |-> TRUE, value |-> 5000]
      [] OTHER -> [ok |-> FALSE, value |-> 0]

Max(a, b) == IF a >= b THEN a ELSE b

Min(a, b) == IF a <= b THEN a ELSE b

\* lines 157-165, as a slip would write them: the requested size is not clamped
MutChunkSizeKb(query) ==
    IF query.chunk_size # None /\ ParseInt(query.chunk_size).ok
    THEN ParseInt(query.chunk_size).value
    ELSE DEFAULT_CHUNK_SIZE_KB

\* lines 157-165: the chunk size of the request
ChunkSizeKb(query) ==
    IF query.chunk_size # None
    THEN LET requested_chunk_size == ParseInt(query.chunk_size)
         IN IF requested_chunk_size.ok
            THEN Max(MIN_CHUNK_SIZE_KB, Min(requested_chunk_size.value, MAX_CHUNK_SIZE_KB))
            ELSE DEFAULT_CHUNK_SIZE_KB
    ELSE DEFAULT_CHUNK_SIZE_KB

\* `key in mapping`
HasKey(mapping, key) == key \in DOMAIN mapping

Put(mapping, key, value) ==
    [k \in DOMAIN mapping \cup {key} |-> IF k = key THEN value ELSE mapping[k]]

EmptyDict == [k \in {} |-> ""]

(***************************************************************************)
(* The session map (lines 145-151).                                        *)
(***************************************************************************)
\* line 147, as a slip would write it: every request gets a new session
MutNeedsNewSession(header_sid, map) == TRUE

\* line 147: `not session_id or session_id not in self.sessions`
NeedsNewSession(header_sid, map) ==
    header_sid = None \/ header_sid = "" \/ header_sid \notin DOMAIN map

\* lines 148-149, as a slip would write them: the dictionary is stored without
\* the id being generated anew
MutCreateSession(header_sid, new_id, map, hp) ==
    LET session_id == IF header_sid = None \/ header_sid = "" THEN new_id ELSE header_sid
    IN [session_id |-> session_id,
        sessions |-> Put(map, session_id, Len(hp) + 1),
        heap |-> Append(hp, [initialized |-> FALSE])]

\* lines 148-149: a new id, and a new dictionary stored under it
CreateSession(header_sid, new_id, map, hp) ==
    [session_id |-> new_id,
     sessions |-> Put(map, new_id, Len(hp) + 1),
     heap |-> Append(hp, [initialized |-> FALSE])]

\* line 377, as a slip would write it: the flag is set on every session
MutSetInitialized(hp, session) ==
    [ref \in DOMAIN hp |-> [hp[ref] EXCEPT !.initialized = TRUE]]

\* line 377: session["initialized"] = True, on the dictionary the request holds
SetInitialized(hp, session) ==
    [hp EXCEPT ![session].initialized = TRUE]

(***************************************************************************)
(* JSON-RPC frames (one `data: <json>` each).                              *)
(***************************************************************************)
ResultFrame(id, kind, tool_list) ==
    [jsonrpc |-> "2.0", id |-> id, is_error |-> FALSE, code |-> 0, message |-> "",
     result |-> kind, tools |-> tool_list]

ErrorFrame(id, code, message) ==
    [jsonrpc |-> "2.0", id |-> id, is_error |-> TRUE, code |-> code, message |-> message,
     result |-> None, tools |-> <<>>]

\* lines 350-358, as a slip would write them: the general error code
MutMethodNotFound(id, method) ==
    ErrorFrame(id, -32000, "Method not found: " \o (IF method = None THEN "None" ELSE method))

\* lines 350-358
MethodNotFound(id, method) ==
    ErrorFrame(id, -32601, "Method not found: " \o (IF method = None THEN "None" ELSE method))

\* str(e): the argument of the exception, without its type
Str(e) == e.arg

\* lines 363-373, as a slip would write them: the error reported with the
\* id of a notification
MutExceptionFrame(id, e) == ErrorFrame("null", -32000, Str(e))

\* lines 363-373
ExceptionFrame(id, e) == ErrorFrame(id, -32000, Str(e))

(***************************************************************************)
(* tools/list (lines 215-290).                                             *)
(***************************************************************************)
\* what handle_list_tools returns: Tool objects, by name, the lengths of name and
\* description and the length of the JSON text of the input schema
Catalogue ==
    << [name |-> "chat", name_len |-> 4, desc_len |-> 250, schema_len |-> 3768],
       [name |-> "debug", name_len |-> 5, desc_len |-> 180, schema_len |-> 3837],
       [name |-> "listmodels", name_len |-> 10, desc_len |-> 90, schema_len |-> 152] >>

\* lines 243-249: the dictionary of a tool with its whole schema
FullTool(tool) ==
    [name |-> tool.name,
     size |-> 48 + tool.name_len + tool.desc_len + tool.schema_len,
     isObject |-> FALSE]

\* lines 254-269: the dictionary of a tool with the description cut at 200
\* characters and the one-prompt schema
SimplifiedTool(tool) ==
    [name |-> tool.name,
     size |-> 179 + tool.name_len
                  + (IF tool.desc_len > 200 THEN 200 + 3 ELSE tool.desc_len),
     isObject |-> FALSE]

\* tool_ids.split(",") with each id stripped
SplitIds(tool_ids) ==
    CASE tool_ids = "chat,debug" -> {"chat", "debug"}
      [] tool_ids = "debug, chat" -> {"chat", "debug"}
      [] tool_ids = "listmodels" -> {"listmodels"}
      [] OTHER -> {tool_ids}

\* seq[start:end] of Python, negative indices counted from the end
PySlice(seq, start, end) ==
    LET n == Len(seq)
        lo == IF start < 0 THEN Max(start + n, 0) ELSE Min(start, n)
        hi == IF end < 0 THEN Max(end + n, 0) ELSE Min(end, n)
    IN IF lo >= hi THEN <<>> ELSE [i \in 1..(hi - lo) |-> seq[lo + i]]

\* lines 223-239, as a slip would write them: the first page starts after
\* `limit` tools
MutSelectTools(query, handler_tools) ==
    IF query.ids # None /\ query.ids # ""
    THEN SelectSeq(handler_tools, LAMBDA tool : tool.name \in SplitIds(query.ids))
    ELSE LET page == ParseInt(IF query.page = None THEN "1" ELSE query.page)
             limit == ParseInt(IF query.limit = None THEN "50" ELSE query.limit)
         IN IF page.ok /\ limit.ok
            THEN LET capped == Min(limit.value, 1000)
                     start_idx == page.value * capped
                     end_idx == start_idx + capped
                 IN PySlice(handler_tools, start_idx, end_idx)
            ELSE handler_tools

\* lines 223-239: the tools selected by ids, or the page
SelectTools(query, handler_tools) ==
    IF query.ids # None /\ query.ids # ""
    THEN SelectSeq(handler_tools, LAMBDA tool : tool.name \in SplitIds(query.ids))
    ELSE LET page == ParseInt(IF query.page = None THEN "1" ELSE query.page)
             limit == ParseInt(IF query.limit = None THEN "50" ELSE query.limit)
         IN IF page.ok /\ limit.ok
            THEN LET capped == Min(limit.value, 1000)
                     start_idx == (page.value - 1) * capped
                     end_idx == start_idx + capped
                 IN PySlice(handler_tools, start_idx, end_idx)
            ELSE handler_tools

\* lines 241-270: tool_list
ToolList(query, handler_tools) ==
    LET view_mode == IF query.view = None THEN "compact" ELSE query.view
        selected == SelectTools(query, handler_tools)
    IN [i \in 1..Len(selected) |->
          IF view_mode = "full" THEN FullTool(selected[i]) ELSE SimplifiedTool(selected[i])]

\* lines 272-290: the frames of a tools/list response: one per chunk when the
\* response is larger than the threshold, else the response itself
ToolsListFrames(id, query, kb, handler_tools) ==
    LET tool_list == ToolList(query, handler_tools)
        response == ToolsResponse(id, tool_list)
        response_size == JsonLenToolsResponse(response)
        chunk_threshold == kb * 1024
    IN IF response_size > chunk_threshold
       THEN LET cs == ChunkToolsResponse(tool_list, id, kb)
            IN [chunked |-> TRUE,
                frames |-> [k \in 1..Len(cs) |->
                              ResultFrame(cs[k].id, "tools", cs[k].result.tools)]]
       ELSE [chunked |-> FALSE, frames |-> << ResultFrame(id, "tools", tool_list) >>]

(***************************************************************************)
(* tools/call and prompts/get (lines 292-341).                             *)
(***************************************************************************)
WorkflowTools ==
    {"thinkdeep", "planner", "consensus", "codereview", "precommit", "debug",
     "secaudit", "docgen", "analyze", "refactor", "tracer", "testgen"}

AttributeError == [type |-> "AttributeError", arg |-> "object has no attribute 'get'"]

TypeError == [type |-> "TypeError", arg |-> "argument is not iterable"]

\* lines 293-313, as a slip would write them: the arguments of the client are
\* passed on as they are
MutCallToolArguments(params) ==
    [raised |-> FALSE, exc |-> TypeError,
     name |-> IF params.shape = "object" THEN params.name ELSE None,
     arguments |-> IF params.shape = "object" /\ params.arguments.shape = "dict"
                   THEN params.arguments.dict ELSE EmptyDict]

\* lines 293-313: tool_name and zen_arguments, or the exception raised on the way
CallToolArguments(params) ==
    IF params.shape = "nondict"
    THEN [raised |-> TRUE, exc |-> AttributeError, name |-> None, arguments |-> EmptyDict]
    ELSE LET tool_name == IF params.shape = "absent" THEN None ELSE params.name
             arguments == IF params.shape = "absent" THEN [shape |-> "absent", dict |-> EmptyDict]
                          ELSE params.arguments
             dict == IF arguments.shape = "dict" THEN arguments.dict ELSE EmptyDict
         IN IF arguments.shape = "null"
            THEN [raised |-> TRUE, exc |-> TypeError, name |-> tool_name, arguments |-> EmptyDict]
            ELSE IF HasKey(dict, "prompt") /\ tool_name # "listmodels" /\ tool_name # "version"
                 THEN [raised |-> FALSE, exc |-> TypeError, name |-> tool_name,
                       arguments |->
                           IF tool_name \in WorkflowTools
                           THEN [prompt |-> dict["prompt"], model |-> "auto",
                                 step |-> dict["prompt"], step_number |-> "1",
                                 total_steps |-> "3", next_step_required |-> "False",
                                 findings |-> "Starting analysis based on user request"]
                           ELSE [prompt |-> dict["prompt"], model |-> "auto"]]
                 ELSE [raised |-> FALSE, exc |-> TypeError, name |-> tool_name,
                       arguments |-> dict]

\* lines 334-335: prompt_name and prompt_args, or the exception raised on the way
GetPromptArguments(params) ==
    IF params.shape = "nondict"
    THEN [raised |-> TRUE, exc |-> AttributeError, name |-> None, arguments |-> EmptyDict]
    ELSE [raised |-> FALSE, exc |-> AttributeError,
          name |-> IF params.shape = "absent" THEN None ELSE params.name,
          arguments |-> IF params.shape = "absent" \/ params.arguments.shape # "dict"
                        THEN EmptyDict ELSE params.arguments.dict]

(***************************************************************************)
(* Providers: the model tables and validate_model_name.                    *)
(***************************************************************************)
\* GroqProvider.SUPPORTED_MODELS: the keys, each with its aliases
GroqModels ==
    {[name |-> "gemma2-9b-it", aliases |-> {"gemma2-9b-it", "gemma2"}],
     [name |-> "llama-3.1-8b-instant",
      aliases |-> {"llama-3.1-8b-instant", "llama-8b", "llama3.1-8b"}],
     [name |-> "llama-3.3-70b-versatile",
      aliases |-> {"llama-3.3-70b-versatile", "llama-70b", "llama3.3-70b"}],
     [name |-> "meta-llama/llama-guard-4-12b",
      aliases |-> {"meta-llama/llama-guard-4-12b", "llama-guard-4", "guard-4"}],
     [name |-> "deepseek-r1-distill-llama-70b",
      aliases |-> {"deepseek-r1-distill-llama-70b", "deepseek-r1", "r1-distill"}],
     [name |-> "meta-llama/llama-4-maverick-17b-128e-instruct",
      aliases |-> {"meta-llama/llama-4-maverick-17b-128e-instruct", "llama-4-maverick",
                   "maverick-17b"}],
     [name |-> "meta-llama/llama-4-scout-17b-16e-instruct",
      aliases |-> {"meta-llama/llama-4-scout-17b-16e-instruct", "llama-4-scout", "scout-17b"}],
     [name |-> "mistral-saba-24b", aliases |-> {"mistral-saba-24b", "saba-24b", "mistral-saba"}],
     [name |-> "moonshotai/kimi-k2-instruct",
      aliases |-> {"moonshotai/kimi-k2-instruct", "kimi-k2", "k2-instruct"}],
     [name |-> "qwen/qwen3-32b", aliases |-> {"qwen/qwen3-32b", "qwen3-32b", "qwen3"}],
     [name |-> "compound-beta", aliases |-> {"compound-beta", "compound"}],
     [name |-> "compound-beta-mini", aliases |-> {"compound-beta-mini", "compound-mini"}]}

\* MoonshotProvider.SUPPORTED_MODELS: the keys, each with its aliases
MoonshotModels ==
    {[name |-> "kimi-latest", aliases |-> {"kimi-latest", "moonshot-latest"}],
     [name |-> "kimi-thinking-preview", aliases |-> {"kimi-thinking", "moonshot-thinking"}]}

\* OpenAIModelProvider.SUPPORTED_MODELS: the keys, each with its aliases
OpenAIModels ==
    {[name |-> "o3", aliases |-> {}],
     [name |-> "o3-mini", aliases |-> {"o3mini", "o3-mini"}],
     [name |-> "o3-pro", aliases |-> {"o3-pro"}],
     [name |-> "o4-mini", aliases |-> {"o4mini", "o4-mini"}],
     [name |-> "gpt-4.1", aliases |-> {"gpt4.1", "gpt-4.1"}],
     [name |-> "gpt-4.1-mini", aliases |-> {"gpt-4.1-mini", "gpt4.1-mini"}],
     [name |-> "codex-mini-latest", aliases |-> {"codex-mini", "codex"}],
     [name |-> "gpt-5", aliases |-> {"gpt5"}],
     [name |-> "gpt-5-mini", aliases |-> {"mini", "gpt5mini", "gpt5-mini", "gpt-5-mini"}],
     [name |-> "gpt-5-nano", aliases |-> {"gpt5nano", "gpt5-nano"}]}

\* PerplexityProvider.SUPPORTED_MODELS: the keys, each with its aliases and
\* its supports_extended_thinking
PerplexityModels ==
    {[name |-> "sonar", aliases |-> {"perplexity"}, supports_extended_thinking |-> FALSE],
     [name |-> "sonar-pro", aliases |-> {"perplexity-pro"},
      supports_extended_thinking |-> FALSE],
     [name |-> "sonar-reasoning", aliases |-> {"perplexity-reasoning"},
      supports_extended_thinking |-> TRUE],
     [name |-> "sonar-reasoning-pro", aliases |-> {"perplexity-reasoning-pro"},
      supports_extended_thinking |-> TRUE],
     [name |-> "sonar-deep-research", aliases |-> {"deep-research"},
      supports_extended_thinking |-> TRUE],
     [name |-> "r1-1776", aliases |-> {"r1"}, supports_extended_thinking |-> TRUE]}

Providers == {"GROQ", "MOONSHOT"}

ModelTable(prov) ==
    CASE prov = "GROQ" -> GroqModels
      [] prov = "MOONSHOT" -> MoonshotModels
      [] prov = "OPENAI" -> OpenAIModels
      [] prov = "PERPLEXITY" -> PerplexityModels

\* the keys of SUPPORTED_MODELS
SUPPORTED_MODELS(prov) == {m.name : m \in ModelTable(prov)}

\* self._resolve_model_name(model_name): the key of SUPPORTED_MODELS the name is
\* a key or an alias of, else the name itself
ResolveModelName(prov, name) ==
    IF name \in SUPPORTED_MODELS(prov) THEN name
    ELSE IF \E m \in ModelTable(prov) : name \in m.aliases
         THEN (CHOOSE m \in ModelTable(prov) : name \in m.aliases).name
         ELSE name

\* an alias_map in which perplexity-pro leads to the alias perplexity
MutPerplexityResolveModelName(name) ==
    CASE name = "perplexity" -> "sonar"
      [] name = "perplexity-pro" -> "perplexity"
      [] name = "perplexity-reasoning" -> "sonar-reasoning"
      [] name = "perplexity-reasoning-pro" -> "sonar-reasoning-pro"
      [] name = "deep-research" -> "sonar-deep-research"
      [] name = "r1" -> "r1-1776"
      [] OTHER -> name

\* PerplexityProvider._resolve_model_name: alias_map.get(model_name, model_name)
PerplexityResolveModelName(name) ==
    CASE name = "perplexity" -> "sonar"
      [] name = "perplexity-pro" -> "sonar-pro"
      [] name = "perplexity-reasoning" -> "sonar-reasoning"
      [] name = "perplexity-reasoning-pro" -> "sonar-reasoning-pro"
      [] name = "deep-research" -> "sonar-deep-research"
      [] name = "r1" -> "r1-1776"
      [] OTHER -> name

\* self._resolve_model_name(model_name) of a provider object: the method of
\* PerplexityProvider, or the inherited one
SelfResolveModelName(prov, name) ==
    IF prov = "PERPLEXITY" THEN PerplexityResolveModelName(name)
    ELSE ResolveModelName(prov, name)

\* restriction_service.is_allowed(provider_type, model_name, original_name): no
\* allow-list, or one of the two names on it
IsAllowed(allowed, resolved_name, original_name) ==
    allowed = {} \/ resolved_name \in allowed \/ original_name \in allowed

\* validate_model_name as a slip would write it: the restriction asked for the
\* resolved name alone
MutValidateModelName(prov, allowed, name) ==
    LET resolved_name == ResolveModelName(prov, name)
    IN IF resolved_name \notin SUPPORTED_MODELS(prov) THEN FALSE
       ELSE IF ~IsAllowed(allowed, resolved_name, resolved_name) THEN FALSE
       ELSE TRUE

\* GroqProvider.validate_model_name, MoonshotProvider.validate_model_name
ValidateModelName(prov, allowed, name) ==
    LET resolved_name == ResolveModelName(prov, name)
    IN IF resolved_name \notin SUPPORTED_MODELS(prov) THEN FALSE
       ELSE IF ~IsAllowed(allowed, resolved_name, name) THEN FALSE
       ELSE TRUE

(***************************************************************************)
(* PerplexityProvider: capabilities, and the Perplexity parameters of a    *)
(* call.  A Python value is a record of its type t, its text v and, for a  *)
(* list, its items; a dictionary is a function of its keys.                *)
(***************************************************************************)
StrV(s) == [t |-> "str", v |-> s, items |-> <<>>]

IntV(s) == [t |-> "int", v |-> s, items |-> <<>>]

BoolV(b) == [t |-> "bool", v |-> IF b THEN "True" ELSE "False", items |-> <<>>]

ListV(items) == [t |-> "list", v |-> "", items |-> items]

NoneV == [t |-> "NoneType", v |-> "None", items |-> <<>>]

\* the item of a list: a value that is no list
ItemV(t, s) == [t |-> t, v |-> s]

\* bool(value)
Truthy(value) ==
    CASE value.t = "bool" -> value.v = "True"
      [] value.t = "int" -> value.v # "0"
      [] value.t = "str" -> value.v # ""
      [] value.t = "list" -> value.items # <<>>
      [] OTHER -> FALSE

\* the characters of the strings the calls are made with
Chars(s) ==
    CASE s = "example.com" -> <<"e", "x", "a", "m", "p", "l", "e", ".", "c", "o", "m">>
      [] s = "-reddit.com" -> <<"-", "r", "e", "d", "d", "i", "t", ".", "c", "o", "m">>
      [] s = "localhost" -> <<"l", "o", "c", "a", "l", "h", "o", "s", "t">>
      [] s = "--" -> <<"-", "-">>
      [] s = "" -> <<>>
      [] s = "2024-01-15" -> <<"2", "0", "2", "4", "-", "0", "1", "-", "1", "5">>
      [] s = "2024-02-29" -> <<"2", "0", "2", "4", "-", "0", "2", "-", "2", "9">>
      [] s = "2023-02-29" -> <<"2", "0", "2", "3", "-", "0", "2", "-", "2", "9">>
      [] s = "2024-13-01" -> <<"2", "0", "2", "4", "-", "1", "3", "-", "0", "1">>
      [] s = "01/15/2024" -> <<"0", "1", "/", "1", "5", "/", "2", "0", "2", "4">>
      [] s = "2024-1-5" -> <<"2", "0", "2", "4", "-", "1", "-", "5">>

\* str.lstrip("-")
RECURSIVE LstripDash(_)
LstripDash(chars) ==
    IF chars # <<>> /\ Head(chars) = "-" THEN LstripDash(Tail(chars)) ELSE chars

\* `"." in text`
HasDot(chars) == \E i \in 1..Len(chars) : chars[i] = "."

Digits == {"0", "1", "2", "3", "4", "5", "6", "7", "8", "9"}

DigitValue(c) ==
    CASE c = "0" -> 0 [] c = "1" -> 1 [] c = "2" -> 2 [] c = "3" -> 3 [] c = "4" -> 4
      [] c = "5" -> 5 [] c = "6" -> 6 [] c = "7" -> 7 [] c = "8" -> 8 [] c = "9" -> 9

\* int(text) of a text of digits
RECURSIVE IntOf(_)
IntOf(chars) ==
    IF chars = <<>> THEN 0
    ELSE IntOf(SubSeq(chars, 1, Len(chars) - 1)) * 10 + DigitValue(chars[Len(chars)])

\* re.match(r"^\d{4}-\d{2}-\d{2}$", text)
MatchesDatePattern(chars) ==
    /\ Len(chars) = 10
    /\ \A i \in {1, 2, 3, 4, 6, 7, 9, 10} : chars[i] \in Digits
    /\ chars[5] = "-"
    /\ chars[8] = "-"

IsLeapYear(year) == year % 4 = 0 /\ (year % 100 # 0 \/ year % 400 = 0)

DaysInMonth(year, month) ==
    CASE month \in {1, 3, 5, 7, 8, 10, 12} -> 31
      [] month \in {4, 6, 9, 11} -> 30
      [] OTHER -> IF IsLeapYear(year) THEN 29 ELSE 28

\* datetime.strptime(text, "%Y-%m-%d") succeeds, for a text of the pattern
StrptimeSucceeds(chars) ==
    LET year == IntOf(SubSeq(chars, 1, 4))
        month == IntOf(SubSeq(chars, 6, 7))
        day == IntOf(SubSeq(chars, 9, 10))
    IN /\ year >= 1
       /\ month \in 1..12
       /\ day >= 1
       /\ day <= DaysInMonth(year, month)

\* the outcome of a validator: it returns, or raises an exception of a type
Passes == "returns"

\* _validate_reasoning_effort
ValidateReasoningEffort(effort) ==
    IF ~(effort.t = "str" /\ effort.v \in {"low", "medium", "high"}) THEN "ValueError"
    ELSE Passes

\* _validate_search_domain_filter
ValidateSearchDomainFilter(domains) ==
    IF domains.t # "list" THEN "ValueError"
    ELSE IF \E i \in 1..Len(domains.items) :
               LET domain == domains.items[i]
               IN \/ domain.t # "str"
                  \/ LstripDash(Chars(domain.v)) = <<>>
                  \/ ~HasDot(LstripDash(Chars(domain.v)))
         THEN "ValueError"
         ELSE Passes

\* _validate_search_recency_filter
ValidateSearchRecencyFilter(recency) ==
    IF ~(recency.t = "str" /\ recency.v \in {"hour", "day", "week", "month", "year"})
    THEN "ValueError"
    ELSE Passes

\* _validate_search_mode
ValidateSearchMode(mode) ==
    IF ~(mode.t = "str" /\ mode.v \in {"web", "high", "medium", "low"}) THEN "ValueError"
    ELSE Passes

\* _validate_date_filter: re.match raises TypeError for a value that is no string
ValidateDateFilter(date_str) ==
    IF date_str.t # "str" THEN "TypeError"
    ELSE IF ~MatchesDatePattern(Chars(date_str.v)) THEN "ValueError"
    ELSE IF ~StrptimeSucceeds(Chars(date_str.v)) THEN "ValueError"
    ELSE Passes

\* os.getenv: the variable is not set
Unset == "<unset>"

\* no call of the method has ended
NoResult == [called |-> FALSE]

\* the result of a call that returned a value, and of one that raised
Ok(value) == [called |-> TRUE, raised |-> None, value |-> value]

Raises(type) == [called |-> TRUE, raised |-> type, value |-> None]

\* get_capabilities as a slip would write it: the restriction is not asked
MutPerplexityGetCapabilities(allowed, name) ==
    LET resolved_name == PerplexityResolveModelName(name)
    IN IF resolved_name \notin SUPPORTED_MODELS("PERPLEXITY") THEN Raises("ValueError")
       ELSE Ok(CHOOSE m \in PerplexityModels : m.name = resolved_name)

\* PerplexityProvider.get_capabilities
PerplexityGetCapabilities(allowed, name) ==
    LET resolved_name == PerplexityResolveModelName(name)
    IN IF resolved_name \notin SUPPORTED_MODELS("PERPLEXITY") THEN Raises("ValueError")
       ELSE IF ~IsAllowed(allowed, resolved_name, name) THEN Raises("ValueError")
       ELSE Ok(CHOOSE m \in PerplexityModels : m.name = resolved_name)

\* PerplexityProvider.validate_model_name
PerplexityValidateModelName(allowed, name) ==
    LET resolved_name == PerplexityResolveModelName(name)
    IN IF resolved_name \notin SUPPORTED_MODELS("PERPLEXITY") THEN FALSE
       ELSE IF ~IsAllowed(allowed, resolved_name, name) THEN FALSE
       ELSE TRUE

\* PerplexityProvider.supports_thinking_mode
PerplexitySupportsThinkingMode(allowed, name) ==
    LET capabilities_ == PerplexityGetCapabilities(allowed, name)
    IN IF capabilities_.raised # None THEN FALSE
       ELSE capabilities_.value.supports_extended_thinking

\* the dictionary without the keys
Without(mapping, keys) == [k \in DOMAIN mapping \ keys |-> mapping[k]]

\* dict.update
Update(mapping, other) ==
    [k \in DOMAIN mapping \cup DOMAIN other |->
        IF k \in DOMAIN other THEN other[k] ELSE mapping[k]]

\* lines 267-323: the parameters taken over as they are once their check passed
CopiedParams == {"max_tokens", "search_domain_filter", "search_recency_filter", "search_mode",
                 "search_after_date_filter", "search_before_date_filter",
                 "image_domain_filter", "image_format_filter"}

\* lines 267-323: the parameters turned into a bool
BoolParams == {"return_images", "return_related_questions"}

\* the check of a parameter that is in kwargs
ValidateParam(key, value) ==
    CASE key = "search_domain_filter" -> ValidateSearchDomainFilter(value)
      [] key = "search_recency_filter" -> ValidateSearchRecencyFilter(value)
      [] key = "search_mode" -> ValidateSearchMode(value)
      [] key \in {"search_after_date_filter", "search_before_date_filter"} ->
            ValidateDateFilter(value)
      [] OTHER -> Passes

\* lines 270-323: the checks that follow reasoning_effort, in the order of the code
CheckOrder == <<"search_domain_filter", "search_recency_filter", "search_mode",
                "search_after_date_filter", "search_before_date_filter">>

\* the outcome of the first check from the i-th on that does not pass
RECURSIVE FirstFailure(_, _)
FirstFailure(kw, i) ==
    IF i > Len(CheckOrder) THEN Passes
    ELSE IF HasKey(kw, CheckOrder[i]) /\ ValidateParam(CheckOrder[i], kw[CheckOrder[i]]) # Passes
         THEN ValidateParam(CheckOrder[i], kw[CheckOrder[i]])
         ELSE FirstFailure(kw, i + 1)

\* _extract_perplexity_params as a slip would write it: reasoning_effort is
\* popped from kwargs
MutExtractPerplexityParams(allowed, name, kw) ==
    [called |-> TRUE, raised |-> None, value |-> EmptyDict, warned |-> FALSE,
     kwargs |-> Without(kw, {"reasoning_effort"})]

\* _extract_perplexity_params: what it returns or raises, whether it warned,
\* and kwargs as the call leaves it
ExtractPerplexityParams(allowed, name, kw) ==
    LET has_effort == HasKey(kw, "reasoning_effort")
        thinks == has_effort /\ PerplexitySupportsThinkingMode(allowed, name)
        effort_check == IF thinks THEN ValidateReasoningEffort(kw["reasoning_effort"])
                        ELSE Passes
        failure == IF effort_check # Passes THEN effort_check ELSE FirstFailure(kw, 1)
        keys == (DOMAIN kw \cap (CopiedParams \cup BoolParams))
                   \cup (IF thinks THEN {"reasoning_effort"} ELSE {})
        params == [k \in keys |-> IF k \in BoolParams THEN BoolV(Truthy(kw[k])) ELSE kw[k]]
    IN IF failure # Passes
       THEN [called |-> TRUE, raised |-> failure, value |-> None, warned |-> has_effort /\ ~thinks,
             kwargs |-> kw]
       ELSE [called |-> TRUE, raised |-> None, value |-> params, warned |-> has_effort /\ ~thinks,
             kwargs |-> kw]

(***************************************************************************)
(* PerplexityProvider._extract_perplexity_metadata.  An object is the      *)
(* function of its attributes: hasattr is membership in its domain.        *)
(***************************************************************************)
\* None, which has no attribute
NoObject == EmptyDict

\* `hasattr(obj, attr) and obj.attr`, for an attribute that is a text
HasText(obj, attr) == HasKey(obj, attr) /\ obj[attr] # ""

\* `hasattr(obj, attr) and obj.attr`, for an attribute that is a list
HasList(obj, attr) == HasKey(obj, attr) /\ obj[attr] # <<>>

\* `hasattr(obj, attr) and obj.attr`, for an attribute that is a number
HasNonZero(obj, attr) == HasKey(obj, attr) /\ obj[attr] # 0

\* the entries of the keys for which the condition holds
Entries(keys, value) == [k \in keys |-> value]

\* lines 449-472: the token counts of the usage object
UsageAttributes == {"prompt_tokens", "completion_tokens", "total_tokens", "citation_tokens",
                    "reasoning_tokens", "num_search_queries"}

\* lines 445-475: the entries taken from response.usage
UsageMetadata(usage_data) ==
    LET enhanced_usage == [k \in DOMAIN usage_data \cap UsageAttributes |-> usage_data[k]]
        citation_tokens == IF HasKey(enhanced_usage, "citation_tokens")
                           THEN enhanced_usage["citation_tokens"] ELSE 0
        num_queries == IF HasKey(enhanced_usage, "num_search_queries")
                       THEN enhanced_usage["num_search_queries"] ELSE 0
    IN Update(Update(IF HasKey(usage_data, "num_search_queries")
                     THEN Entries({"search_queries_count"}, usage_data["num_search_queries"])
                     ELSE EmptyDict,
                     IF citation_tokens # 0 /\ num_queries > 0
                     THEN Entries({"search_efficiency"},
                                  [dividend |-> citation_tokens, divisor |-> num_queries])
                     ELSE EmptyDict),
              Entries({"perplexity_usage"}, enhanced_usage))

\* lines 486-493: the dictionary of one search result
ResultData(result) ==
    [k \in {attr \in {"title", "url", "date"} : HasText(result, attr)} |-> result[k]]

\* the list of f(item)
MapList(list, F(_)) == [i \in 1..Len(list) |-> F(list[i])]

\* lines 482-505: the entries taken from response.search_results
SearchResultsMetadata(results) ==
    LET NonEmpty(result_data) == result_data # EmptyDict
        HasUrl(r) == HasKey(r, "url")
        Url(r) == r["url"]
        search_results == SelectSeq(MapList(results, ResultData), NonEmpty)
        urls == MapList(SelectSeq(search_results, HasUrl), Url)
    IN IF search_results = <<>> THEN EmptyDict
       ELSE Update(Entries({"search_results", "sources"}, search_results),
                   IF urls # <<>> THEN Entries({"source_urls"}, urls) ELSE EmptyDict)

\* PerplexityProvider._extract_perplexity_metadata
ExtractPerplexityMetadata(response) ==
    LET ids == IF HasText(response, "id")
               THEN Entries({"perplexity_response_id", "conversation_id"}, response["id"])
               ELSE EmptyDict
        usage == IF HasKey(response, "usage") /\ response["usage"] # NoObject
                 THEN UsageMetadata(response["usage"]) ELSE EmptyDict
        citations == IF HasList(response, "citations")
                     THEN Entries({"citations", "citation_urls"}, response["citations"])
                     ELSE EmptyDict
        results == IF HasList(response, "search_results")
                   THEN SearchResultsMetadata(response["search_results"]) ELSE EmptyDict
        model == IF HasText(response, "model")
                 THEN Entries({"actual_model_used"}, response["model"]) ELSE EmptyDict
        created == IF HasNonZero(response, "created")
                   THEN Entries({"response_created_at"}, response["created"]) ELSE EmptyDict
    IN Update(Update(Update(Update(Update(ids, usage), citations), results), model), created)

\* PerplexityProvider._enhance_model_response_with_perplexity_metadata
EnhanceModelResponse(response, model_response) ==
    LET actual_response ==
            IF response = NoObject /\ HasKey(model_response.metadata, "raw_response")
            THEN model_response.metadata["raw_response"]
            ELSE response
        perplexity_metadata == ExtractPerplexityMetadata(actual_response)
    IN [model_response EXCEPT !.metadata = Update(model_response.metadata, perplexity_metadata)]
InitCallsIdle ==
    /\ kwargs = EmptyDict
    /\ max_output_tokens = NoneV
    /\ capabilities = NoResult
    /\ thinking = NoResult
    /\ perplexity_params = NoResult
    /\ parent_calls = <<>>
    /\ vendor_calls = <<>>
    /\ parent_result = NoResult
    /\ generated = NoResult

InitAuthIdle ==
    /\ login_mode = Unset
    /\ auth_file = [state |-> "missing"]
    /\ file_reads = 0
    /\ auth_result = NoResult
    /\ built = <<>>
    /\ class_headers = EmptyDict

InitResearchIdle ==
    /\ response_text = <<>>
    /\ model_info = NoObject
    /\ export_enabled = FALSE
    /\ formatted = NoResult

InitPrefIdle ==
    /\ category = "BALANCED"
    /\ allowed_list = <<>>
    /\ preferred = NoResult

InitResolveIdle ==
    /\ resolved = NoResult
    /\ resolved_again = NoResult

InitRestIdle ==
    /\ InitCallsIdle
    /\ InitAuthIdle
    /\ InitResearchIdle
    /\ InitPrefIdle
    /\ InitResolveIdle

\* no provider under an allow-list
InitModelsOnly ==
    /\ provider = "GROQ"
    /\ allowed_models = {}
    /\ model_name = None
    /\ is_valid = FALSE

\* no provider call in the specifications of the transport
InitModelsIdle == InitModelsOnly /\ InitRestIdle

(***************************************************************************)
(* The state of one request: where its task stands (pc), the HTTP request  *)
(* the client has sent, the locals of handle_mcp_request and what has been *)
(* sent back.                                                              *)
(*   pc: idle    no request in this slot                                   *)
(*       parse   suspended at `await request.json()` (line 169)            *)
(*       stream  the StreamingResponse is returned, its generator          *)
(*               _handle_mcp_message has not started                       *)
(*       await   suspended at the await of a handler of the server         *)
(*       chunks  suspended at the yield of a chunk (line 287)              *)
(*       done    the response is complete                                  *)
(***************************************************************************)
Slots == 1..MaxInFlight

DefaultQuery ==
    [view |-> None, chunk_size |-> None, page |-> None, limit |-> None, ids |-> None]

NoParams == [shape |-> "absent", name |-> None, arguments |-> [shape |-> "absent", dict |-> EmptyDict]]

NoBody == [kind |-> "none", method |-> None, id |-> "null", params |-> NoParams]

NoRequest ==
    [accept |-> None, user_agent |-> None, header_sid |-> None, query |-> DefaultQuery,
     body |-> NoBody]

\* what the call of a handler ends with: its result, or an exception
Exceptions ==
    {[type |-> "ValueError", arg |-> "Unknown tool"],
     [type |-> "RuntimeError", arg |-> "vendor API error"]}

\* _handle_initialize, line 380: the import of the version may fail
ImportError == [type |-> "ImportError", arg |-> "cannot import name '__version__'"]

Returned == [type |-> "returned", arg |-> ""]

NotCalled == [type |-> "not called", arg |-> ""]

Outcomes == {Returned} \cup Exceptions

IdleReq ==
    [pc |-> "idle", request |-> NoRequest,
     session_id |-> None, session |-> 0, chunk_size_kb |-> 0,
     status |-> 0, resp_sid |-> None, media_type |-> None,
     calls |-> 0, handler |-> None, call_name |-> None, call_args |-> EmptyDict,
     outcome |-> NotCalled, frames |-> <<>>, pending |-> <<>>, aborted |-> FALSE]

InitHttp ==
    /\ sessions = [id \in {} |-> 0]
    /\ heap = <<>>
    /\ req = [r \in Slots |-> IdleReq]
    /\ initialize_served = {}

\* lines 183-187, as a slip would write them: a plain JSON answer for clients
\* that do not name text/event-stream
MutResponseMediaType(method, accept, user_agent) ==
    IF HasEventStream(accept) THEN "text/event-stream" ELSE "application/json"

\* lines 183-187: StreamingResponse(..., media_type="text/event-stream")
ResponseMediaType(method, accept, user_agent) == "text/event-stream"

(***************************************************************************)
(* handle_mcp_request, lines 136-165: from the arrival of the request to   *)
(* its first suspension.  No await lies between the Accept check, the      *)
(* session lookup-or-create and the query parsing.                         *)
(***************************************************************************)
Arrive(r, request) ==
    /\ req[r].pc = "idle"
    /\ IF ~AcceptOk(request.accept)
       THEN \* lines 137-143: HTTPException(406)
            /\ req' = [req EXCEPT ![r] =
                          [IdleReq EXCEPT !.pc = "done", !.request = request,
                                          !.status = 406, !.media_type = "application/json"]]
            /\ UNCHANGED <<sessions, heap, initialize_served, chunkVars, modelVars, restVars>>
       ELSE IF NeedsNewSession(request.header_sid, sessions)
       THEN /\ Len(heap) < MaxSessions
            /\ \E new_id \in Uuid4(DOMAIN sessions \cup {request.header_sid}) :
                 LET created == CreateSession(request.header_sid, new_id, sessions, heap)
                 IN /\ sessions' = created.sessions
                    /\ heap' = created.heap
                    /\ req' = [req EXCEPT ![r] =
                                  [IdleReq EXCEPT !.pc = "parse", !.request = request,
                                                  !.session_id = created.session_id,
                                                  !.session = created.sessions[created.session_id],
                                                  !.chunk_size_kb = ChunkSizeKb(request.query)]]
                    /\ UNCHANGED <<initialize_served, chunkVars, modelVars, restVars>>
       ELSE /\ req' = [req EXCEPT ![r] =
                          [IdleReq EXCEPT !.pc = "parse", !.request = request,
                                          !.session_id = request.header_sid,
                                          !.session = sessions[request.header_sid],
                                          !.chunk_size_kb = ChunkSizeKb(request.query)]]
            /\ UNCHANGED <<sessions, heap, initialize_served, chunkVars, modelVars, restVars>>

(***************************************************************************)
(* handle_mcp_request, lines 167-187: the body has been read.              *)
(***************************************************************************)
ParseBody(r) ==
    /\ req[r].pc = "parse"
    /\ IF req[r].request.body.kind = "invalid"
       THEN \* lines 170-172: HTTPException(400)
            req' = [req EXCEPT ![r].pc = "done", ![r].status = 400,
                               ![r].media_type = "application/json"]
       ELSE req' = [req EXCEPT ![r].pc = "stream", ![r].status = 200,
                               ![r].resp_sid = req[r].session_id,
                               ![r].media_type =
                                   ResponseMediaType(req[r].request.body.method,
                                                     req[r].request.accept,
                                                     req[r].request.user_agent)]
    /\ UNCHANGED <<sessions, heap, initialize_served, chunkVars, modelVars, restVars>>

(***************************************************************************)
(* _handle_mcp_message, lines 196-361: from the start of the generator to  *)
(* its first suspension, or to its end.                                    *)
(***************************************************************************)
\* the request ends with one more frame
Finish(rec, frame) ==
    [rec EXCEPT !.pc = "done", !.frames = Append(@, frame)]

\* lines 216, 316, 326 and 336, as a slip would write them: a handler is awaited
\* only on a session the client has named, a new session is told to initialize
MutAwait(rec, name, args) ==
    IF rec.session_id # rec.request.header_sid
    THEN Finish(rec, ErrorFrame(rec.request.body.id, -32002, "Session not initialized"))
    ELSE [rec EXCEPT !.pc = "await", !.calls = @ + 1,
                     !.handler = HandlerOf(rec.request.body.method),
                     !.call_name = name, !.call_args = args]

\* the request awaits a handler of the server
Await(rec, name, args) ==
    [rec EXCEPT !.pc = "await", !.calls = @ + 1,
                !.handler = HandlerOf(rec.request.body.method),
                !.call_name = name, !.call_args = args]

\* lines 363-373, as a slip would write them: the handler is tried once more
MutOnException(rec, e) ==
    IF rec.pc = "await" /\ rec.calls < 2
    THEN [rec EXCEPT !.calls = @ + 1]
    ELSE Finish(rec, ExceptionFrame(rec.request.body.id, e))

\* lines 363-373: the exception ends the request with an error frame
OnException(rec, e) ==
    Finish(rec, ExceptionFrame(rec.request.body.id, e))

\* lines 211-213, as a slip would write them: the notification is answered as
\* a ping is
MutDispatch(rec, init_outcome) ==
    Finish(rec, ResultFrame(rec.request.body.id, "ping", <<>>))

\* lines 203-361: the branch of the method, up to the await of its handler; the
\* outcome of _handle_initialize, which does not suspend, is init_outcome
Dispatch(rec, init_outcome) ==
    LET body == rec.request.body
        method == body.method
        msg_id == body.id
    IN CASE method = "initialize" ->
              LET invoked == [rec EXCEPT !.calls = @ + 1, !.handler = "_handle_initialize",
                                         !.outcome = init_outcome]
              IN IF init_outcome = Returned
                 THEN Finish(invoked, ResultFrame(msg_id, "initialize", <<>>))
                 ELSE OnException(invoked, init_outcome)
         [] method = "notifications/initialized" ->
              [rec EXCEPT !.pc = "done"]
         [] method = "tools/list" ->
              Await(rec, None, EmptyDict)
         [] method = "tools/call" ->
              LET extracted == CallToolArguments(body.params)
              IN IF extracted.raised
                 THEN OnException(rec, extracted.exc)
                 ELSE Await(rec, extracted.name, extracted.arguments)
         [] method = "prompts/list" ->
              Await(rec, None, EmptyDict)
         [] method = "prompts/get" ->
              LET extracted == GetPromptArguments(body.params)
              IN IF extracted.raised
                 THEN OnException(rec, extracted.exc)
                 ELSE Await(rec, extracted.name, extracted.arguments)
         [] method = "ping" ->
              Finish(rec, ResultFrame(msg_id, "ping", <<>>))
         [] OTHER ->
              Finish(rec, MethodNotFound(msg_id, method))

StartStream(r) ==
    /\ req[r].pc = "stream"
    /\ IF req[r].request.body.kind # "object"
       THEN \* line 196: message.get on a body that is no JSON object raises outside
            \* the try block; the stream breaks off without a frame
            /\ req' = [req EXCEPT ![r].pc = "done", ![r].aborted = TRUE]
            /\ UNCHANGED <<sessions, heap, initialize_served, chunkVars, modelVars, restVars>>
       ELSE IF req[r].request.body.method = "initialize"
       THEN \* line 204 and _handle_initialize, lines 375-392
            /\ heap' = SetInitialized(heap, req[r].session)
            /\ \E init_outcome \in {Returned, ImportError} :
                 req' = [req EXCEPT ![r] = Dispatch(req[r], init_outcome)]
            /\ initialize_served' = initialize_served \cup {req[r].session_id}
            /\ UNCHANGED <<sessions, chunkVars, modelVars, restVars>>
       ELSE /\ req' = [req EXCEPT ![r] = Dispatch(req[r], Returned)]
            /\ UNCHANGED <<sessions, heap, initialize_served, chunkVars, modelVars, restVars>>

(***************************************************************************)
(* _handle_mcp_message: the awaited handler has returned or raised.        *)
(***************************************************************************)
\* lines 216-341: the response built from the result of the handler
OnReturn(rec) ==
    LET body == rec.request.body
        msg_id == body.id
    IN CASE body.method = "tools/list" ->
              LET listed == ToolsListFrames(msg_id, rec.request.query,
                                            rec.chunk_size_kb, Catalogue)
              IN IF listed.chunked
                 THEN [rec EXCEPT !.pc = "chunks", !.pending = listed.frames]
                 ELSE Finish(rec, listed.frames[1])
         [] body.method = "tools/call" ->
              Finish(rec, ResultFrame(msg_id, "content", <<>>))
         [] body.method = "prompts/list" ->
              Finish(rec, ResultFrame(msg_id, "prompts", <<>>))
         [] OTHER ->
              Finish(rec, ResultFrame(msg_id, "prompt", <<>>))

HandlerDone(r, outcome) ==
    /\ req[r].pc = "await"
    /\ LET rec == [req[r] EXCEPT !.outcome = outcome]
       IN req' = [req EXCEPT ![r] =
                     IF outcome = Returned THEN OnReturn(rec) ELSE OnException(rec, outcome)]
    /\ UNCHANGED <<sessions, heap, initialize_served, chunkVars, modelVars, restVars>>

\* lines 286-288: the next chunk is yielded; after the last one the generator returns
YieldChunk(r) ==
    /\ req[r].pc = "chunks"
    /\ req' = [req EXCEPT ![r].frames = Append(@, Head(req[r].pending)),
                          ![r].pending = Tail(@),
                          ![r].pc = IF Len(req[r].pending) = 1 THEN "done" ELSE "chunks"]
    /\ UNCHANGED <<sessions, heap, initialize_served, chunkVars, modelVars, restVars>>

\* the client has read the response; the slot takes the next request
Forget(r) ==
    /\ req[r].pc = "done"
    /\ req' = [req EXCEPT ![r] = IdleReq]
    /\ UNCHANGED <<sessions, heap, initialize_served, chunkVars, modelVars, restVars>>

(***************************************************************************)
(* The requests clients send.                                              *)
(***************************************************************************)
AcceptInputs ==
    {None, "application/json", "text/event-stream", "*/*",
     "application/json, text/event-stream"}

UserAgentInputs == {None, "ChatMCP/1.0 (iOS)"}

HeaderSidInputs == {None, ""} \cup UUIDs

MessageIdInputs == {"1", "null"}

QueryInputs ==
    {DefaultQuery,
     [DefaultQuery EXCEPT !.view = "full"],
     [DefaultQuery EXCEPT !.view = "full", !.chunk_size = "8"],
     [DefaultQuery EXCEPT !.view = "full", !.chunk_size = "0"],
     [DefaultQuery EXCEPT !.view = "full", !.chunk_size = "abc"],
     [DefaultQuery EXCEPT !.chunk_size = ""],
     [DefaultQuery EXCEPT !.chunk_size = "8.5"],
     [DefaultQuery EXCEPT !.chunk_size = "-1"],
     [DefaultQuery EXCEPT !.chunk_size = " 8 "],
     [DefaultQuery EXCEPT !.chunk_size = "30"],
     [DefaultQuery EXCEPT !.chunk_size = "50"],
     [DefaultQuery EXCEPT !.chunk_size = "100"],
     [DefaultQuery EXCEPT !.view = "full", !.chunk_size = "5000"],
     [DefaultQuery EXCEPT !.view = "full", !.chunk_size = "8", !.page = "2", !.limit = "1"],
     [DefaultQuery EXCEPT !.page = "2", !.limit = "2"],
     [DefaultQuery EXCEPT !.page = "x"],
     [DefaultQuery EXCEPT !.page = "1", !.limit = "1"],
     [DefaultQuery EXCEPT !.page = "2", !.limit = "1"],
     [DefaultQuery EXCEPT !.page = "3", !.limit = "1"],
     [DefaultQuery EXCEPT !.page = "1", !.limit = "2"],
     [DefaultQuery EXCEPT !.page = "3", !.limit = "2"],
     [DefaultQuery EXCEPT !.page = "2"],
     [DefaultQuery EXCEPT !.limit = "2"],
     [DefaultQuery EXCEPT !.page = "1", !.limit = "5000"],
     [DefaultQuery EXCEPT !.page = "2", !.limit = "5000"],
     [DefaultQuery EXCEPT !.page = "2", !.limit = "abc"],
     [DefaultQuery EXCEPT !.page = "8.5", !.limit = "1"],
     [DefaultQuery EXCEPT !.ids = "listmodels", !.page = "x", !.limit = "1"],
     [DefaultQuery EXCEPT !.ids = "debug, chat", !.page = "3", !.limit = "1"],
     [DefaultQuery EXCEPT !.ids = "", !.page = "2", !.limit = "1"],
     [DefaultQuery EXCEPT !.ids = "chat,debug", !.page = "2"]}

ArgumentsInputs ==
    {[shape |-> "absent", dict |-> EmptyDict],
     [shape |-> "null", dict |-> EmptyDict],
     [shape |-> "dict", dict |-> EmptyDict],
     [shape |-> "dict", dict |-> [prompt |-> "hello"]],
     [shape |-> "dict", dict |-> [model |-> "o3", files |-> "a.py"]],
     [shape |-> "dict", dict |-> [prompt |-> "hello", model |-> "o3"]]}

ParamsInputs ==
    {NoParams, [NoParams EXCEPT !.shape = "nondict"]}
    \cup {[shape |-> "object", name |-> name, arguments |-> arguments] :
            name \in {"chat", "debug", "listmodels", "version"}, arguments \in ArgumentsInputs}

ObjectBody(method, id, params) ==
    [kind |-> "object", method |-> method, id |-> id, params |-> params]

\* a body that is no JSON, a JSON text that is no object (a batch array), and
\* the JSON-RPC envelopes
BodyInputs ==
    {[NoBody EXCEPT !.kind = "invalid"], [NoBody EXCEPT !.kind = "nonobject"]}
    \cup {ObjectBody(method, id, NoParams) :
            method \in Methods \cup {"bogus/method", None}, id \in MessageIdInputs}
    \cup {ObjectBody(method, "1", params) :
            method \in {"tools/call", "prompts/get"}, params \in ParamsInputs}

Request(accept, user_agent, header_sid, query, body) ==
    [accept |-> accept, user_agent |-> user_agent, header_sid |-> header_sid,
     query |-> query, body |-> body]

\* every body with every session header; every Accept and User-Agent header
\* with some bodies; every query with tools/list
Requests ==
    {Request("text/event-stream", None, header_sid, DefaultQuery, body) :
        header_sid \in HeaderSidInputs, body \in BodyInputs}
    \cup {Request(accept, user_agent, None, DefaultQuery, body) :
            accept \in AcceptInputs, user_agent \in UserAgentInputs,
            body \in {ObjectBody(method, "1", NoParams) :
                        method \in {"initialize", "tools/list", "ping"}}}
    \cup {Request("*/*", None, None, query, ObjectBody("tools/list", id, NoParams)) :
            query \in QueryInputs, id \in MessageIdInputs}

\* the requests of the interleaved specification: with and without a session
\* header, initialize (which writes the session) and a tools/list that awaits
\* its handler and yields two chunk frames
ConcurrentRequests ==
    {Request("text/event-stream", None, header_sid, DefaultQuery,
             ObjectBody("initialize", "1", NoParams)) : header_sid \in {None} \cup UUIDs}
    \cup {Request("text/event-stream", None, header_sid,
                  [DefaultQuery EXCEPT !.view = "full", !.chunk_size = "8"],
                  ObjectBody("tools/list", "1", NoParams)) : header_sid \in {None} \cup UUIDs}

\* what a handler ends with in the interleaved specification
ConcurrentOutcomes == {Returned, [type |-> "RuntimeError", arg |-> "vendor API error"]}

(***************************************************************************)
(* Spec: one request after the other, over every request of Requests.      *)
(***************************************************************************)
InitChunkIdle ==
    /\ tools = <<>>
    /\ message_id = "1"
    /\ chunk_size_kb = DEFAULT_CHUNK_SIZE_KB
    /\ chunks = <<>>
    /\ called = FALSE

Init == InitHttp /\ InitChunkIdle /\ InitModelsIdle

Next ==
    \/ \E request \in Requests : Arrive(1, request)
    \/ ParseBody(1)
    \/ StartStream(1)
    \/ \E outcome \in Outcomes : HandlerDone(1, outcome)
    \/ YieldChunk(1)
    \/ Forget(1)

Spec == Init /\ [][Next]_vars

(***************************************************************************)
(* SpecConcurrent: MaxInFlight requests, each in a slot of its own,        *)
(* interleaved at their suspension points.                                 *)
(***************************************************************************)
NextConcurrent ==
    \E r \in Slots :
        \/ \E request \in ConcurrentRequests : Arrive(r, request)
        \/ ParseBody(r)
        \/ StartStream(r)
        \/ \E outcome \in ConcurrentOutcomes : HandlerDone(r, outcome)
        \/ YieldChunk(r)

SpecConcurrent == Init /\ [][NextConcurrent]_vars

(***************************************************************************)
(* SpecChunk: the inputs are drawn, then the function is applied.          *)
(***************************************************************************)
\* lengths of the JSON text of a tool: a compact entry, two entries that fill an
\* 8 KB chunk to the byte with the envelope of id 1, an entry larger than 8 KB
ToolSizes == {300, 4070, 9000}

ChunkSizesKB == {MIN_CHUNK_SIZE_KB, DEFAULT_CHUNK_SIZE_KB}

ToolLists ==
    UNION {[1..n -> ToolSizes \X BOOLEAN] : n \in 0..MaxTools}

MkTools(f) ==
    [i \in 1..Len(f) |-> [name |-> i, size |-> f[i][1], isObject |-> f[i][2]]]

InitChunk ==
    /\ \E f \in ToolLists : tools = MkTools(f)
    /\ message_id \in MessageIds
    /\ chunk_size_kb \in ChunkSizesKB
    /\ chunks = <<>>
    /\ called = FALSE
    /\ InitHttp
    /\ InitModelsIdle

CallChunk ==
    /\ ~called
    /\ chunks' = ChunkToolsResponse(tools, message_id, chunk_size_kb)
    /\ called' = TRUE
    /\ UNCHANGED <<tools, message_id, chunk_size_kb>>
    /\ UNCHANGED <<httpVars, modelVars, restVars>>

NextChunk == CallChunk

SpecChunk == InitChunk /\ [][NextChunk]_vars

RECURSIVE ConcatTools(_)
ConcatTools(cs) ==
    IF cs = <<>> THEN <<>>
    ELSE Head(cs).result.tools \o ConcatTools(Tail(cs))

\* C8: _chunk_tools_response partitions the tool list: every chunk is a complete
\* JSON-RPC response (jsonrpc "2.0", the given id, result.tools) with a non-empty
\* tools array, the chunks' tools arrays concatenated in order are the input list
\* tool for tool (a Tool object appears as its dictionary), and an empty input
\* yields no chunk.
C8_ChunksPartitionTools ==
    called =>
        /\ \A k \in 1..Len(chunks) :
              /\ chunks[k].jsonrpc = "2.0"
              /\ chunks[k].id = message_id
              /\ chunks[k].result.tools # <<>>
        /\ ConcatTools(chunks) = [i \in 1..Len(tools) |-> ToolData(tools[i])]
        /\ (tools = <<>> => chunks = <<>>)

\* C8 witness: a call that returned several chunks, one of several tools, for an
\* input that holds a Tool object and an oversized first tool
C8_Witness ==
    /\ called
    /\ Len(chunks) >= 2
    /\ \E k \in 1..Len(chunks) : Len(chunks[k].result.tools) >= 2
    /\ \E i \in 1..Len(tools) : tools[i].isObject
    /\ tools[1].size > chunk_size_kb * 1024

\* C9: every chunk's serialized JSON length (envelope, tool entries and the
\* separators between them) is at most chunk_size_kb * 1024, except a chunk of a
\* single tool that alone exceeds the limit together with the envelope.
C9_ChunkWithinLimit ==
    called =>
        \A k \in 1..Len(chunks) :
            \/ JsonLenToolsResponse(chunks[k]) <= chunk_size_kb * 1024
            \/ Len(chunks[k].result.tools) = 1

(***************************************************************************)
(* SpecGenerate: generate_content of the four providers, up to the call of *)
(* the parent class and from its end.                                      *)
(***************************************************************************)
GenerateProviders == {"GROQ", "MOONSHOT", "OPENAI", "PERPLEXITY"}

\* the keyword arguments the calls are made of, one value each
KwargOptions ==
    {[key |-> "max_tokens", value |-> IntV("500")],
     [key |-> "reasoning_effort", value |-> StrV("high")],
     [key |-> "reasoning_effort", value |-> StrV("extreme")],
     [key |-> "search_domain_filter",
      value |-> ListV(<<ItemV("str", "example.com"), ItemV("str", "-reddit.com")>>)],
     [key |-> "search_domain_filter", value |-> ListV(<<ItemV("str", "localhost")>>)],
     [key |-> "search_domain_filter", value |-> ListV(<<ItemV("str", "--")>>)],
     [key |-> "search_domain_filter", value |-> ListV(<<ItemV("int", "42")>>)],
     [key |-> "search_domain_filter", value |-> StrV("example.com")],
     [key |-> "search_recency_filter", value |-> StrV("week")],
     [key |-> "search_recency_filter", value |-> StrV("decade")],
     [key |-> "search_mode", value |-> StrV("web")],
     [key |-> "search_mode", value |-> StrV("deep")],
     [key |-> "search_after_date_filter", value |-> StrV("2024-02-29")],
     [key |-> "search_after_date_filter", value |-> StrV("2023-02-29")],
     [key |-> "search_after_date_filter", value |-> StrV("01/15/2024")],
     [key |-> "search_after_date_filter", value |-> IntV("20240115")],
     [key |-> "search_before_date_filter", value |-> StrV("2024-01-15")],
     [key |-> "search_before_date_filter", value |-> StrV("2024-13-01")],
     [key |-> "search_before_date_filter", value |-> StrV("2024-1-5")],
     [key |-> "return_images", value |-> IntV("1")],
     [key |-> "return_related_questions", value |-> StrV("")],
     [key |-> "top_p", value |-> [t |-> "float", v |-> "0.9", items |-> <<>>]]}

\* the dictionaries of at most k keyword arguments
RECURSIVE KwargsUpTo(_)
KwargsUpTo(k) ==
    IF k = 0 THEN {EmptyDict}
    ELSE LET shorter == KwargsUpTo(k - 1)
         IN shorter \cup
            {Put(kw, option.key, option.value) :
                kw \in shorter, option \in KwargOptions}

\* the allow-lists of PERPLEXITY_ALLOWED_MODELS the calls are made under
GenerateAllowLists == {{}, {"sonar-reasoning"}, {"r1"}, {"sonar", "perplexity-pro"}}

InitGenerate ==
    /\ provider \in GenerateProviders
    /\ allowed_models \in (IF provider = "PERPLEXITY" THEN GenerateAllowLists ELSE {{}})
    /\ kwargs \in (IF provider = "PERPLEXITY" THEN KwargsUpTo(MaxParams) ELSE KwargsUpTo(1))
    /\ max_output_tokens \in {NoneV, IntV("1000")}
    /\ model_name = None
    /\ is_valid = FALSE
    /\ capabilities = NoResult
    /\ thinking = NoResult
    /\ perplexity_params = NoResult
    /\ parent_calls = <<>>
    /\ vendor_calls = <<>>
    /\ parent_result = NoResult
    /\ generated = NoResult
    /\ InitAuthIdle
    /\ InitResearchIdle
    /\ InitPrefIdle
    /\ InitResolveIdle
    /\ InitHttp
    /\ InitChunkIdle

\* the arguments of a call of super().generate_content
ParentCall(resolved_model_name, max_tokens, kw) ==
    [model_name |-> resolved_model_name, max_output_tokens |-> max_tokens, kwargs |-> kw]

\* OpenAICompatibleProvider.generate_content: the request it sends to the
\* vendor API
VendorRequest(call) == [model |-> call.model_name]

\* generate_content as a slip would write it: the name goes to the parent as
\* it was given
MutParentModelName(prov, name) == name

\* the model_name argument of super().generate_content
ParentModelName(prov, name) == SelfResolveModelName(prov, name)

\* lines 224-225 of PerplexityProvider.generate_content as a slip would write
\* them: the Perplexity parameters are not put back
MutCleanedKwargs(kw, params) == Without(kw, DOMAIN params)

\* lines 224-225 of PerplexityProvider.generate_content
CleanedKwargs(kw, params) == Update(Without(kw, DOMAIN params), params)

\* lines 228-229 as a slip would write them: max_tokens always wins
MutMaxOutputTokens(max_tokens, params) ==
    IF HasKey(params, "max_tokens") THEN params["max_tokens"] ELSE max_tokens

\* lines 228-229 of PerplexityProvider.generate_content
MaxOutputTokens(max_tokens, params) ==
    IF max_tokens = NoneV /\ HasKey(params, "max_tokens") THEN params["max_tokens"]
    ELSE max_tokens

\* generate_content of GroqProvider, OpenAIModelProvider (MoonshotProvider
\* inherits it) and PerplexityProvider, up to the call of the parent class or
\* to the exception of the parameter extraction
CallGenerateContent(name) ==
    /\ model_name = None
    /\ model_name' = name
    /\ IF provider = "PERPLEXITY"
       THEN LET extraction == ExtractPerplexityParams(allowed_models, name, kwargs)
            IN /\ perplexity_params' = extraction
               /\ kwargs' = extraction.kwargs
               /\ IF extraction.raised # None
                  THEN /\ generated' = Raises(extraction.raised)
                       /\ UNCHANGED <<parent_calls, vendor_calls>>
                  ELSE LET call == ParentCall(ParentModelName(provider, name),
                                              MaxOutputTokens(max_output_tokens,
                                                              extraction.value),
                                              CleanedKwargs(kwargs, extraction.value))
                       IN /\ parent_calls' = Append(parent_calls, call)
                          /\ vendor_calls' = Append(vendor_calls, VendorRequest(call))
                          /\ UNCHANGED generated
       ELSE LET call == ParentCall(ParentModelName(provider, name), max_output_tokens, kwargs)
            IN /\ parent_calls' = Append(parent_calls, call)
               /\ vendor_calls' = Append(vendor_calls, VendorRequest(call))
               /\ UNCHANGED <<kwargs, perplexity_params, generated>>
    /\ UNCHANGED <<provider, allowed_models, is_valid, max_output_tokens, capabilities, thinking,
                   parent_result, chunkVars, httpVars, authVars, researchVars, prefVars, resolveVars>>

\* the objects the vendor API answers with
RawResponses ==
    {[id |-> "resp-1", model |-> "sonar", created |-> 1234567890,
      citations |-> <<"https://a.example">>,
      usage |-> [prompt_tokens |-> 10, completion_tokens |-> 5, total_tokens |-> 15,
                 citation_tokens |-> 4, num_search_queries |-> 2]],
     [id |-> "", usage |-> NoObject,
      search_results |-> <<[title |-> "A", url |-> "https://a.example", date |-> ""],
                           [title |-> "", url |-> "", date |-> ""],
                           [title |-> "C", url |-> "", date |-> "2024-01-15"]>>]}

\* the metadata of the response of the parent class
ParentMetadata ==
    {[finish_reason |-> "stop"]}
       \cup {[k \in {"raw_response"} |-> raw] : raw \in RawResponses}

\* OpenAICompatibleProvider.generate_content: the responses it may return for
\* a call
ParentResponses(prov, call) ==
    {[content |-> content, usage |-> "usage", model_name |-> call.model_name,
      friendly_name |-> prov, provider |-> prov, metadata |-> metadata] :
        content \in {"Test response", ""}, metadata \in ParentMetadata}

\* lines 246-248 of PerplexityProvider.generate_content
RawResponse(model_response) ==
    IF HasKey(model_response.metadata, "raw_response")
    THEN model_response.metadata["raw_response"]
    ELSE NoObject

\* line 352 of GroqProvider.generate_content as a slip would write it: the
\* response of the parent is returned as it is
MutGroqResponse(response, name) == response

\* line 352 of GroqProvider.generate_content
GroqResponse(response, name) == [response EXCEPT !.model_name = name]

\* what generate_content returns once the parent class has returned
Returns(prov, name, response) ==
    CASE prov = "GROQ" -> GroqResponse(response, name)
      [] prov = "PERPLEXITY" -> EnhanceModelResponse(RawResponse(response), response)
      [] OTHER -> response

\* the call is inside super().generate_content
InParent == model_name # None /\ ~generated.called /\ parent_calls # <<>>

\* super().generate_content returns
ParentReturns(response) ==
    /\ InParent
    /\ parent_result' = Ok(response)
    /\ generated' = Ok(Returns(provider, model_name, response))
    /\ UNCHANGED <<provider, allowed_models, model_name, is_valid, kwargs, max_output_tokens,
                   capabilities, thinking, perplexity_params, parent_calls, vendor_calls,
                   chunkVars, httpVars, authVars, researchVars, prefVars, resolveVars>>

\* super().generate_content raises: no provider catches the exception
ParentRaises ==
    /\ InParent
    /\ parent_result' = Raises("RuntimeError")
    /\ generated' = Raises("RuntimeError")
    /\ UNCHANGED <<provider, allowed_models, model_name, is_valid, kwargs, max_output_tokens,
                   capabilities, thinking, perplexity_params, parent_calls, vendor_calls,
                   chunkVars, httpVars, authVars, researchVars, prefVars, resolveVars>>

\* the names generate_content is called with
GenerateNameInputs(prov) ==
    SUPPORTED_MODELS(prov) \cup UNION {m.aliases : m \in ModelTable(prov)} \cup {"gpt-4"}

NextGenerate ==
    \/ \E name \in GenerateNameInputs(provider) : CallGenerateContent(name)
    \/ /\ InParent
       /\ \E response \in ParentResponses(provider, parent_calls[Len(parent_calls)]) :
             ParentReturns(response)
    \/ ParentRaises

SpecGenerate == InitGenerate /\ [][NextGenerate]_vars

(***************************************************************************)
(* Properties of POST /mcp.                                                *)
(***************************************************************************)
\* the request of slot r has passed the Accept check and the session lines
Entered(r) == req[r].pc # "idle" /\ req[r].status # 406

\* the request of slot r has been answered with status 200 and its generator
\* has run its method switch
Dispatched(r) ==
    /\ req[r].pc \in {"await", "chunks", "done"}
    /\ req[r].status = 200
    /\ req[r].request.body.kind = "object"

\* the session id of the request was generated by the server
Generated(r) == Entered(r) /\ req[r].session_id # req[r].request.header_sid

\* the step in which the request of slot r runs lines 136-165
C1_Entry(r) ==
    (req[r].pc = "idle" /\ req'[r].pc = "parse") =>
        LET header_sid == req'[r].request.header_sid
            session_id == req'[r].session_id
        IN IF header_sid \in DOMAIN sessions
           THEN /\ session_id = header_sid
                /\ req'[r].session = sessions[header_sid]
                /\ sessions' = sessions
                /\ heap' = heap
           ELSE /\ session_id \notin DOMAIN sessions
                /\ session_id # header_sid
                /\ DOMAIN sessions' = DOMAIN sessions \cup {session_id}
                /\ \A id \in DOMAIN sessions : sessions'[id] = sessions[id]
                /\ req'[r].session = sessions'[session_id]
                /\ sessions'[session_id] \notin DOMAIN heap
                /\ heap'[sessions'[session_id]] = [initialized |-> FALSE]

\* the step in which the body of the request of slot r has been parsed
C1_Answer(r) ==
    (req[r].pc = "parse" /\ req'[r].pc = "stream") =>
        /\ req'[r].status = 200
        /\ req'[r].resp_sid = req[r].session_id

\* C1 (amended): a request that passes the Accept check and names a session id
\* of the map uses that entry, the map unchanged; any other request that passes
\* the Accept check gets a generated id that is neither in the map nor the id
\* the client sent, stored with a new entry initialized = false.  When the body
\* of the request parses, the response header Mcp-Session-Id carries the id of
\* the request; a response of status 400 carries no Mcp-Session-Id header.
C1_SessionCorrelation ==
    [][\A r \in Slots :
          /\ C1_Entry(r)
          /\ C1_Answer(r)
          /\ (req'[r].status = 400 => req'[r].resp_sid = None)]_vars

\* C1 witness: an answered request whose header named an id unknown to the
\* server; it got a generated id, returned in the response header, with an
\* entry that is not initialized
C1_Witness ==
    \E r \in Slots :
        /\ req[r].pc = "done"
        /\ req[r].status = 200
        /\ req[r].request.header_sid \in UUIDs
        /\ req[r].session_id # req[r].request.header_sid
        /\ req[r].resp_sid = req[r].session_id
        /\ req[r].request.body.method = "ping"
        /\ ~heap[sessions[req[r].session_id]].initialized

\* C1 as stated: every request that passes the Accept check is answered with
\* the response header Mcp-Session-Id set to its session id (the id it named if
\* that id is in the map, else the generated id)
C1_EveryResponseEchoesSessionId ==
    \A r \in Slots :
        (Entered(r) /\ req[r].pc # "parse") =>
            /\ req[r].session_id \in DOMAIN sessions
            /\ req[r].resp_sid = req[r].session_id

\* C2: the stream of a request holds an error frame of code -32601 exactly when
\* the method of the request is none of the seven methods (a missing method
\* included); then the stream is that one frame, with the id of the request, and
\* no handler has been invoked.
C2_MethodNotFound ==
    \A r \in Slots :
        LET body == req[r].request.body
        IN /\ (\E i \in 1..Len(req[r].frames) : req[r].frames[i].code = -32601)
                 => body.method \notin Methods
           /\ (Dispatched(r) /\ body.method \notin Methods) =>
                 /\ req[r].pc = "done"
                 /\ req[r].frames =
                      << ErrorFrame(body.id, -32601,
                                    "Method not found: "
                                       \o (IF body.method = None THEN "None" ELSE body.method)) >>
                 /\ req[r].calls = 0
                 /\ req[r].handler = None

\* C2 witness: a request without a method, answered by the one frame
C2_Witness ==
    \E r \in Slots :
        /\ Dispatched(r)
        /\ req[r].request.body.method = None
        /\ req[r].request.body.id = "1"
        /\ Len(req[r].frames) = 1
        /\ req[r].frames[1].code = -32601

\* the handler of the request of slot r has raised
HandlerRaised(r) == req[r].outcome \notin {NotCalled, Returned}

\* C3: when the handler of a recognised method raises, the stream of the request
\* is exactly one frame: an error of code -32000 whose message is the text of the
\* exception and whose id is the id of the request; no result frame is sent.
C3_HandlerExceptionFrame ==
    \A r \in Slots :
        HandlerRaised(r) =>
            /\ req[r].pc = "done"
            /\ Len(req[r].frames) = 1
            /\ req[r].frames[1].is_error
            /\ req[r].frames[1].code = -32000
            /\ req[r].frames[1].message = req[r].outcome.arg
            /\ req[r].frames[1].id = req[r].request.body.id
            /\ req[r].pending = <<>>

\* C3 witness: a tools/list whose response would be chunked, had the handler not
\* raised
C3_Witness ==
    \E r \in Slots :
        /\ HandlerRaised(r)
        /\ req[r].request.body.method = "tools/list"
        /\ req[r].request.query.chunk_size = "8"
        /\ req[r].request.body.id = "null"
        /\ req[r].outcome.type = "RuntimeError"
        /\ req[r].frames[1].message = "vendor API error"

\* C4 (amended): every request that passes the Accept check and whose body
\* parses is answered with an SSE stream (status 200, text/event-stream),
\* whatever its method, its Accept value and its User-Agent; a single JSON
\* object is the answer only of the rejected requests (406, 400), and these
\* send no frame.
C4_AlwaysEventStream ==
    \A r \in Slots :
        /\ req[r].status = 200 => req[r].media_type = "text/event-stream"
        /\ req[r].status \in {400, 406} =>
              /\ req[r].media_type = "application/json"
              /\ req[r].frames = <<>>
        /\ req[r].status = 406 <=> (req[r].pc # "idle" /\ ~AcceptOk(req[r].request.accept))
        /\ req[r].status = 400 =>
              (req[r].pc = "done" /\ req[r].request.body.kind = "invalid")

\* C4 witness: a ping of a client with a User-Agent that names neither
\* text/event-stream nor JSON in Accept, answered by a stream of one frame
C4_Witness ==
    \E r \in Slots :
        /\ req[r].pc = "done"
        /\ req[r].status = 200
        /\ req[r].request.accept = "*/*"
        /\ req[r].request.user_agent # None
        /\ req[r].request.body.method = "ping"
        /\ req[r].media_type = "text/event-stream"
        /\ Len(req[r].frames) = 1

\* the requests that pass the Accept check with a body that parses
AcceptedInputs ==
    {request \in Requests : AcceptOk(request.accept) /\ request.body.kind = "object"}

\* C4 as stated: once a request has been answered with an SSE stream, some
\* accepted request is answered with a plain JSON object, and two accepted
\* requests that differ in the User-Agent or the Accept value only are answered
\* in different formats
C4_FormatSelectedByHeaders ==
    (\E r \in Slots : req[r].status = 200 /\ req[r].media_type = "text/event-stream") =>
        /\ \E request \in AcceptedInputs :
              ResponseMediaType(request.body.method, request.accept, request.user_agent)
                 = "application/json"
        /\ \E p, q \in AcceptedInputs :
              /\ p.body = q.body
              /\ p.query = q.query
              /\ p.header_sid = q.header_sid
              /\ ResponseMediaType(p.body.method, p.accept, p.user_agent)
                    # ResponseMediaType(q.body.method, q.accept, q.user_agent)
\* lines 293-295 and 334-335: the extraction of the arguments raises before the
\* handler is called
ExtractionRaises(body) ==
    \/ body.method \in {"tools/call", "prompts/get"} /\ body.params.shape = "nondict"
    \/ body.method = "tools/call" /\ body.params.shape = "object"
         /\ body.params.arguments.shape = "null"

Stepping(r) == req'[r] # req[r]

\* C6: a step of a request changes the session map in two ways only: at entry,
\* a request without a known session id inserts one entry with initialized =
\* false; the start of an initialize sets initialized = true on the session of
\* that request.  No entry is removed or replaced, every other method leaves
\* every flag as it is, and no request changes the flag of another session.
C6_SessionMapFrame ==
    [][/\ DOMAIN sessions \subseteq DOMAIN sessions'
       /\ \A id \in DOMAIN sessions : sessions'[id] = sessions[id]
       /\ \A id \in DOMAIN sessions' \ DOMAIN sessions :
             /\ DOMAIN sessions' = DOMAIN sessions \cup {id}
             /\ heap'[sessions'[id]] = [initialized |-> FALSE]
             /\ \E r \in Slots :
                   /\ Stepping(r)
                   /\ req[r].pc = "idle"
                   /\ req'[r].session_id = id
                   /\ req'[r].request.header_sid \notin DOMAIN sessions
       /\ \A ref \in DOMAIN heap :
             heap'[ref] # heap[ref] =>
                /\ heap'[ref] = [initialized |-> TRUE]
                /\ \E r \in Slots :
                      /\ Stepping(r)
                      /\ req[r].pc = "stream"
                      /\ req[r].request.body.method = "initialize"
                      /\ req[r].session = ref
                      /\ sessions[req[r].session_id] = ref
       /\ \A r \in Slots :
             (Stepping(r) /\ req[r].pc # "idle"
                 /\ ~(req[r].pc = "stream" /\ req[r].request.body.kind = "object"
                        /\ req[r].request.body.method = "initialize")) =>
                /\ sessions' = sessions
                /\ heap' = heap
       /\ \A r \in Slots :
             (Stepping(r) /\ req[r].pc = "stream" /\ req[r].request.body.kind = "object"
                 /\ req[r].request.body.method = "initialize") =>
                heap'[req[r].session].initialized]_vars

\* C6 witness: two sessions; the first is initialized, the second has served a
\* tools/call and is not
C6_Witness ==
    \E r \in Slots :
        /\ req[r].pc = "done"
        /\ req[r].request.body.method = "tools/call"
        /\ req[r].calls = 1
        /\ Len(heap) = 2
        /\ ~heap[req[r].session].initialized
        /\ \E ref \in DOMAIN heap : heap[ref].initialized

\* C7: with requests interleaved at their suspension points, no two requests
\* hold the same generated session id, every dictionary ever stored is still
\* stored under the one id it was created for, and every request in flight
\* holds the dictionary that is stored under its session id, so that the write
\* of initialize arrives in the map.
C7_ConcurrentSessions ==
    /\ \A r1, r2 \in Slots :
          (r1 # r2 /\ Generated(r1) /\ Generated(r2)) =>
              req[r1].session_id # req[r2].session_id
    /\ Cardinality(DOMAIN sessions) = Len(heap)
    /\ \A id1, id2 \in DOMAIN sessions : id1 # id2 => sessions[id1] # sessions[id2]
    /\ \A r \in Slots :
          Entered(r) =>
              /\ req[r].session_id \in DOMAIN sessions
              /\ sessions[req[r].session_id] = req[r].session
    /\ \A r \in Slots :
          (Dispatched(r) /\ req[r].request.body.method = "initialize") =>
              heap[sessions[req[r].session_id]].initialized

\* C7 witness: two requests of one session in flight: a tools/list between two
\* chunks, and an initialize that arrived with the id the tools/list was given
\* and has written the flag meanwhile
C7_Witness ==
    \E r1, r2 \in Slots :
        /\ r1 # r2
        /\ req[r1].pc = "chunks"
        /\ Len(req[r1].frames) = 1
        /\ Generated(r1)
        /\ req[r2].pc = "done"
        /\ req[r2].request.body.method = "initialize"
        /\ req[r2].request.header_sid = req[r1].session_id
        /\ req[r2].session = req[r1].session
        /\ heap[req[r1].session].initialized
(***************************************************************************)
(* SpecModels: a provider under an allow-list; validate_model_name is      *)
(* called with a name.                                                     *)
(***************************************************************************)
\* names no provider of the two supports
UnsupportedNames == {"gpt-4", "kimi"}

\* every key and alias of the provider, and the unsupported names
ModelNameInputs(prov) ==
    SUPPORTED_MODELS(prov) \cup UNION {m.aliases : m \in ModelTable(prov)} \cup UnsupportedNames

\* the sets of at most k of the names
RECURSIVE ListsUpTo(_, _)
ListsUpTo(names, k) ==
    IF k = 0 THEN {{}}
    ELSE LET shorter == ListsUpTo(names, k - 1)
         IN shorter \cup {list \cup {name} : list \in shorter, name \in names}

\* the allow-lists of at most MaxAllowed names
AllowLists(prov) == ListsUpTo(ModelNameInputs(prov), MaxAllowed)

InitModels ==
    /\ provider \in Providers
    /\ allowed_models \in AllowLists(provider)
    /\ model_name = None
    /\ is_valid = FALSE
    /\ InitRestIdle
    /\ InitHttp
    /\ InitChunkIdle

CallValidateModelName(name) ==
    /\ model_name = None
    /\ model_name' = name
    /\ is_valid' = ValidateModelName(provider, allowed_models, name)
    /\ UNCHANGED <<provider, allowed_models, chunkVars, httpVars, restVars>>

NextModels == \E name \in ModelNameInputs(provider) : CallValidateModelName(name)

SpecModels == InitModels /\ [][NextModels]_vars

\* the entries of the table the name is the key or an alias of
ModelsNamed(prov, name) ==
    {m \in ModelTable(prov) : name = m.name \/ name \in m.aliases}

\* C10: validate_model_name(name) is true exactly when the name is the key or an
\* alias of a supported model and the allow-list is empty or holds the name as
\* given or the key of that model.  So a listed key admits the key and all its
\* aliases, a list of aliases alone admits these aliases and rejects the key and
\* the sibling aliases, an empty list admits every key and alias, and an
\* unsupported name is rejected under every list.
C10_ValidateModelName ==
    model_name # None =>
        LET named == ModelsNamed(provider, model_name)
        IN /\ is_valid <=>
                 /\ named # {}
                 /\ \/ allowed_models = {}
                    \/ model_name \in allowed_models
                    \/ \E m \in named : m.name \in allowed_models
           /\ (\E m \in named : m.name \in allowed_models) => is_valid
           /\ (allowed_models # {} /\ model_name \notin allowed_models
                 /\ \A m \in named : m.name \notin allowed_models) => ~is_valid
           /\ (allowed_models = {} /\ named # {}) => is_valid
           /\ model_name \in UnsupportedNames => ~is_valid

\* C10 witness: Moonshot under the list kimi-latest, moonshot-thinking: the
\* sibling alias kimi-thinking of the listed alias is rejected
C10_Witness ==
    /\ provider = "MOONSHOT"
    /\ allowed_models = {"kimi-latest", "moonshot-thinking"}
    /\ model_name = "kimi-thinking"
    /\ ~is_valid
(***************************************************************************)
(* SpecPerplexity: a PerplexityProvider under an allow-list;               *)
(* validate_model_name, get_capabilities and supports_thinking_mode are    *)
(* called with one name.                                                   *)
(***************************************************************************)
InitPerplexity ==
    /\ provider = "PERPLEXITY"
    /\ allowed_models \in AllowLists("PERPLEXITY")
    /\ model_name = None
    /\ is_valid = FALSE
    /\ InitRestIdle
    /\ InitHttp
    /\ InitChunkIdle

\* the names the provider is asked about: its keys and aliases, the
\* unsupported names, and an alias and a key in another case
PerplexityNameInputs == ModelNameInputs("PERPLEXITY") \cup {"R1", "Sonar"}

\* PerplexityProvider.validate_model_name(name)
CallPerplexityValidateModelName(name) ==
    /\ model_name = None
    /\ model_name' = name
    /\ is_valid' = PerplexityValidateModelName(allowed_models, name)
    /\ UNCHANGED <<provider, allowed_models, chunkVars, httpVars, restVars>>

\* PerplexityProvider.get_capabilities, with the name validate_model_name was
\* called with
CallGetCapabilities ==
    /\ model_name # None
    /\ ~capabilities.called
    /\ capabilities' = PerplexityGetCapabilities(allowed_models, model_name)
    /\ UNCHANGED <<modelVars, chunkVars, httpVars, authVars, researchVars, prefVars, resolveVars, kwargs, max_output_tokens, thinking,
                   perplexity_params, parent_calls, vendor_calls, parent_result, generated>>

\* PerplexityProvider.supports_thinking_mode, with the same name
CallSupportsThinkingMode ==
    /\ model_name # None
    /\ ~thinking.called
    /\ thinking' = Ok(PerplexitySupportsThinkingMode(allowed_models, model_name))
    /\ UNCHANGED <<modelVars, chunkVars, httpVars, authVars, researchVars, prefVars, resolveVars, kwargs, max_output_tokens, capabilities,
                   perplexity_params, parent_calls, vendor_calls, parent_result, generated>>

\* PerplexityProvider._resolve_model_name, with the same name
CallResolveModelName ==
    /\ model_name # None
    /\ ~resolved.called
    /\ resolved' = Ok(PerplexityResolveModelName(model_name))
    /\ UNCHANGED <<resolved_again, modelVars, chunkVars, httpVars, callVars, authVars, researchVars,
                   prefVars>>

\* PerplexityProvider._resolve_model_name, with the name the first call returned
CallResolveModelNameAgain ==
    /\ resolved.called
    /\ ~resolved_again.called
    /\ resolved_again' = Ok(PerplexityResolveModelName(resolved.value))
    /\ UNCHANGED <<resolved, modelVars, chunkVars, httpVars, callVars, authVars, researchVars,
                   prefVars>>

NextPerplexity ==
    \/ \E name \in PerplexityNameInputs : CallPerplexityValidateModelName(name)
    \/ CallGetCapabilities
    \/ CallSupportsThinkingMode
    \/ CallResolveModelName
    \/ CallResolveModelNameAgain

SpecPerplexity == InitPerplexity /\ [][NextPerplexity]_vars

\* C15: for every name and allow-list, PerplexityProvider.get_capabilities
\* returns exactly when validate_model_name is true, and then returns the
\* entry of the resolved name; otherwise it raises ValueError.  Where
\* get_capabilities raises, supports_thinking_mode returns False; where it
\* returns, supports_thinking_mode returns the supports_extended_thinking of
\* the entry.
C15_CapabilitiesAgreeWithValidation ==
    /\ capabilities.called =>
          /\ capabilities.raised = None <=> is_valid
          /\ capabilities.raised # None => capabilities.raised = "ValueError"
          /\ capabilities.raised = None =>
                /\ capabilities.value \in ModelsNamed("PERPLEXITY", model_name)
                /\ capabilities.value.name = PerplexityResolveModelName(model_name)
    /\ thinking.called =>
          /\ thinking.raised = None
          /\ ~is_valid => thinking.value = FALSE
          /\ is_valid =>
                \E m \in ModelsNamed("PERPLEXITY", model_name) :
                    thinking.value = m.supports_extended_thinking

\* C15 witness: under the allow-list sonar, the reasoning model r1 is not
\* valid, get_capabilities has raised and supports_thinking_mode has
\* returned False
C15_Witness ==
    /\ provider = "PERPLEXITY"
    /\ allowed_models = {"sonar"}
    /\ model_name = "r1"
    /\ ~is_valid
    /\ capabilities = Raises("ValueError")
    /\ thinking = Ok(FALSE)

(***************************************************************************)
(* Properties of generate_content.                                         *)
(***************************************************************************)
\* the parameter extraction of PerplexityProvider.generate_content has raised
ExtractionFailed ==
    provider = "PERPLEXITY" /\ perplexity_params.called /\ perplexity_params.raised # None

\* C11 (amended): in a call of generate_content of any of the four providers
\* the model sent to the vendor API is the key of the model the given name is
\* the key or an alias of, so a key is sent as it is and an alias that is no
\* key is never sent; a name of no model is sent as given.  The vendor API is
\* called at most once per call: once when the call reaches the parent class,
\* and not at all when the parameter extraction of PerplexityProvider raises.
C11_AliasResolvedBeforeVendorCall ==
    model_name # None =>
        LET named == ModelsNamed(provider, model_name)
        IN /\ Len(vendor_calls) <= 1
           /\ Len(vendor_calls) = Len(parent_calls)
           /\ ExtractionFailed <=> vendor_calls = <<>>
           /\ \A i \in 1..Len(vendor_calls) :
                 /\ vendor_calls[i].model = parent_calls[i].model_name
                 /\ named # {} => vendor_calls[i].model \in {m.name : m \in named}
                 /\ model_name \in SUPPORTED_MODELS(provider) =>
                       vendor_calls[i].model = model_name
                 /\ (named # {} /\ model_name \notin SUPPORTED_MODELS(provider)) =>
                       vendor_calls[i].model # model_name
                 /\ named = {} => vendor_calls[i].model = model_name

\* C11 witness: PerplexityProvider called with the alias perplexity-reasoning
\* has returned after one vendor call for sonar-reasoning
C11_Witness ==
    /\ provider = "PERPLEXITY"
    /\ model_name = "perplexity-reasoning"
    /\ generated.called
    /\ generated.raised = None
    /\ vendor_calls = << [model |-> "sonar-reasoning"] >>

\* C11 as stated: the vendor API is called exactly once per generate_content
\* call
C11_ExactlyOneVendorCall ==
    model_name # None => Len(vendor_calls) = 1

\* C12: when the parent class has returned, GroqProvider.generate_content
\* returns its response with model_name set to the name the caller gave, and
\* MoonshotProvider.generate_content returns it with the resolved name the
\* parent was called with; every other field is the field of the response of
\* the parent.
C12_ResponseModelName ==
    (provider \in {"GROQ", "MOONSHOT"} /\ generated.called /\ generated.raised = None) =>
        /\ parent_result.called
        /\ parent_result.raised = None
        /\ provider = "GROQ" => generated.value.model_name = model_name
        /\ provider = "MOONSHOT" =>
              /\ generated.value.model_name = ResolveModelName(provider, model_name)
              /\ generated.value.model_name = parent_calls[1].model_name
        /\ \A field \in DOMAIN generated.value \ {"model_name"} :
              generated.value[field] = parent_result.value[field]
        /\ DOMAIN generated.value = DOMAIN parent_result.value

\* C12 witness: Groq called with gemma2 and Moonshot called with
\* moonshot-latest have returned
C12_Witness ==
    /\ generated.called
    /\ generated.raised = None
    /\ \/ /\ provider = "GROQ"
          /\ model_name = "gemma2"
          /\ parent_calls[1].model_name # "gemma2"
          /\ generated.value.model_name = "gemma2"
       \/ /\ provider = "MOONSHOT"
          /\ model_name = "moonshot-latest"
          /\ generated.value.model_name = "kimi-latest"

\* a list of dotted domain strings, each with or without the exclusion prefix
IsDomainList(value) ==
    /\ value.t = "list"
    /\ \A i \in 1..Len(value.items) :
          /\ value.items[i].t = "str"
          /\ HasDot(LstripDash(Chars(value.items[i].v)))

\* a valid YYYY-MM-DD date
IsDate(value) ==
    /\ value.t = "str"
    /\ MatchesDatePattern(Chars(value.v))
    /\ StrptimeSucceeds(Chars(value.v))

\* the name is the key or an alias of a Perplexity model that supports
\* thinking and that the allow-list admits under the name given or its key
IsReasoningModel(allowed, name) ==
    \E m \in ModelsNamed("PERPLEXITY", name) :
        /\ m.supports_extended_thinking
        /\ (allowed = {} \/ name \in allowed \/ m.name \in allowed)

\* one of the parameters is invalid in the sense of the five cases
HasInvalidParameter(allowed, name, kw) ==
    \/ HasKey(kw, "search_domain_filter") /\ ~IsDomainList(kw["search_domain_filter"])
    \/ /\ HasKey(kw, "search_recency_filter")
       /\ kw["search_recency_filter"].v \notin {"hour", "day", "week", "month", "year"}
    \/ /\ HasKey(kw, "search_mode")
       /\ kw["search_mode"].v \notin {"web", "high", "medium", "low"}
    \/ \E key \in {"search_after_date_filter", "search_before_date_filter"} :
          HasKey(kw, key) /\ ~IsDate(kw[key])
    \/ /\ HasKey(kw, "reasoning_effort")
       /\ IsReasoningModel(allowed, name)
       /\ kw["reasoning_effort"].v \notin {"low", "medium", "high"}

\* C16: a call of PerplexityProvider.generate_content with an invalid
\* parameter ends with a ValueError and the vendor API is not called.
C16_InvalidParameterRaisesValueError ==
    (provider = "PERPLEXITY" /\ model_name # None
        /\ HasInvalidParameter(allowed_models, model_name, kwargs)) =>
        /\ generated = Raises("ValueError")
        /\ parent_calls = <<>>
        /\ vendor_calls = <<>>

\* what the code does for an invalid parameter: the call ends with a
\* ValueError or, for a date filter that is no string, a TypeError, and the
\* vendor API is not called; a call without an invalid parameter reaches the
\* parent class
InvalidParameterAborts ==
    (provider = "PERPLEXITY" /\ model_name # None) =>
        IF HasInvalidParameter(allowed_models, model_name, kwargs)
        THEN /\ generated.called
             /\ generated.raised \in {"ValueError", "TypeError"}
             /\ generated.raised = "TypeError" =>
                   \E key \in {"search_after_date_filter", "search_before_date_filter"} :
                       HasKey(kwargs, key) /\ kwargs[key].t # "str"
             /\ vendor_calls = <<>>
        ELSE Len(vendor_calls) = 1

\* the step of _extract_perplexity_params
ExtractionStep == provider = "PERPLEXITY" /\ model_name = None /\ model_name' # None

\* the parameters whose values the extraction checks, reasoning_effort aside
CheckedParams == {"search_domain_filter", "search_recency_filter", "search_mode",
                  "search_after_date_filter", "search_before_date_filter"}

\* C17: _extract_perplexity_params leaves kwargs as it was; when it returns,
\* reasoning_effort is among the returned parameters, with the value given,
\* exactly when it was supplied, the model is a reasoning model the allow-list
\* admits, and the value is low, medium or high; supplied with another value
\* for such a model the extraction raises ValueError; for any other model it
\* is left out with a warning and raises nothing, whatever its value.
C17_ReasoningEffort ==
    [][ExtractionStep =>
          LET supplied == HasKey(kwargs, "reasoning_effort")
              reasoning == IsReasoningModel(allowed_models, model_name')
              valid == supplied /\ kwargs["reasoning_effort"].v \in {"low", "medium", "high"}
              result == perplexity_params'
          IN /\ kwargs' = kwargs
             /\ result.called
             /\ result.raised = None =>
                   /\ HasKey(result.value, "reasoning_effort") <=> (supplied /\ reasoning /\ valid)
                   /\ HasKey(result.value, "reasoning_effort") =>
                         result.value["reasoning_effort"] = kwargs["reasoning_effort"]
             /\ (supplied /\ reasoning /\ ~valid) => result.raised = "ValueError"
             /\ (supplied /\ ~reasoning) => result.warned
             /\ (supplied /\ ~reasoning /\ DOMAIN kwargs \cap CheckedParams = {}) =>
                   result.raised = None
             /\ result.warned => (supplied /\ ~reasoning)]_vars

\* C17 witness: reasoning_effort = extreme for sonar-pro is left out without an
\* error, and reasoning_effort = high for r1 under the allow-list r1 is returned
C17_Witness ==
    /\ provider = "PERPLEXITY"
    /\ perplexity_params.called
    /\ perplexity_params.raised = None
    /\ HasKey(kwargs, "reasoning_effort")
    /\ \/ /\ model_name = "perplexity-pro"
          /\ kwargs["reasoning_effort"].v = "extreme"
          /\ perplexity_params.warned
          /\ ~HasKey(perplexity_params.value, "reasoning_effort")
       \/ /\ model_name = "r1"
          /\ allowed_models = {"r1"}
          /\ perplexity_params.value["reasoning_effort"] = StrV("high")

\* C18: PerplexityProvider.generate_content calls the parent class with
\* max_output_tokens = max_tokens when max_tokens is given and
\* max_output_tokens is not, with None when neither is given, with the
\* max_output_tokens given otherwise, and without a max_tokens keyword argument.
C18_MaxTokensMapping ==
    (provider = "PERPLEXITY" /\ parent_calls # <<>>) =>
        LET call == parent_calls[1]
        IN /\ (HasKey(kwargs, "max_tokens") /\ max_output_tokens = NoneV) =>
                 call.max_output_tokens = kwargs["max_tokens"]
           /\ (~HasKey(kwargs, "max_tokens") /\ max_output_tokens = NoneV) =>
                 call.max_output_tokens = NoneV
           /\ max_output_tokens # NoneV => call.max_output_tokens = max_output_tokens
           /\ ~HasKey(call.kwargs, "max_tokens")

\* what the code does with max_tokens: the three cases of max_output_tokens as
\* stated, and max_tokens stays among the keyword arguments of the parent call
\* whenever the caller gave it
MaxTokensAlsoPassedOn ==
    (provider = "PERPLEXITY" /\ parent_calls # <<>>) =>
        LET call == parent_calls[1]
        IN /\ call.max_output_tokens =
                 (IF max_output_tokens = NoneV /\ HasKey(kwargs, "max_tokens")
                  THEN kwargs["max_tokens"] ELSE max_output_tokens)
           /\ HasKey(call.kwargs, "max_tokens") <=> HasKey(kwargs, "max_tokens")

(***************************************************************************)
(* SpecAuth: utils/chatgpt_auth.py and OpenAIModelProvider.__init__.       *)
(***************************************************************************)
\* str.lower() of the values of OPENAI_CHATGPT_LOGIN_MODE
Lower(s) ==
    CASE s \in {"TRUE", "True", "tRuE"} -> "true"
      [] s = "YES" -> "yes"
      [] OTHER -> s

\* is_chatgpt_mode_enabled as a slip would write it: no case folding
MutIsChatgptModeEnabled(mode) == (IF mode = Unset THEN "" ELSE mode) = "true"

\* is_chatgpt_mode_enabled
IsChatgptModeEnabled(mode) == Lower(IF mode = Unset THEN "" ELSE mode) = "true"

\* a key that the JSON object does not have
Absent == "<absent>"

\* dict.get(key, "") of a JSON object: the value, None for null
Get(members, key) == IF members[key] = Absent THEN "" ELSE members[key]

\* no ChatGPTAuth: None
NoAuth == [is_none |-> TRUE]

\* get_chatgpt_auth: every exception ends in None
GetChatgptAuth(file) ==
    IF file.state # "json" THEN NoAuth
    ELSE IF file.data.kind # "object" THEN NoAuth
    ELSE IF file.data.tokens.kind \notin {"absent", "object"} THEN NoAuth
    ELSE LET tokens == file.data.tokens.members
         IN [is_none |-> FALSE,
             access_token |-> Get(tokens, "access_token"),
             account_id |-> Get(tokens, "account_id"),
             refresh_token |-> Get(tokens, "refresh_token"),
             id_token |-> Get(tokens, "id_token"),
             last_refresh |-> file.data.last_refresh]

\* ChatGPTAuth.is_valid
IsValid(auth) == auth.access_token \notin {"", None} /\ auth.account_id \notin {"", None}

\* get_valid_chatgpt_auth: the result, and whether the auth file was looked at
GetValidChatgptAuth(mode, file) ==
    IF ~IsChatgptModeEnabled(mode) THEN [auth |-> NoAuth, read |-> FALSE]
    ELSE LET auth == GetChatgptAuth(file)
         IN [auth |-> IF ~auth.is_none /\ IsValid(auth) THEN auth ELSE NoAuth, read |-> TRUE]

\* the values of OPENAI_CHATGPT_LOGIN_MODE
LoginModes == {Unset, "", "true", "TRUE", "True", "tRuE", "1", "yes", "YES", "false", "on"}

\* the members of the tokens object of auth.json
TokenMembers ==
    [access_token : {Absent, None, "", "chatgpt_access_token"},
     account_id : {Absent, "", "chatgpt_account_id"},
     refresh_token : {"refresh_token"},
     id_token : {Absent}]

NoMembers ==
    [access_token |-> Absent, account_id |-> Absent, refresh_token |-> Absent, id_token |-> Absent]

\* the states of ~/.codex/auth.json
AuthFiles ==
    {[state |-> "missing"], [state |-> "unreadable"], [state |-> "invalid json"],
     [state |-> "json", data |-> [kind |-> "array"]]}
       \cup {[state |-> "json",
              data |-> [kind |-> "object", last_refresh |-> "",
                        tokens |-> [kind |-> kind, members |-> NoMembers]]] :
                kind \in {"absent", "null", "string"}}
       \cup {[state |-> "json",
              data |-> [kind |-> "object", last_refresh |-> "2025-01-01T00:00:00Z",
                        tokens |-> [kind |-> "object", members |-> members]]] :
                members \in TokenMembers}

InitAuth ==
    /\ login_mode \in LoginModes
    /\ auth_file \in AuthFiles
    /\ file_reads = 0
    /\ auth_result = NoResult
    /\ built = <<>>
    /\ class_headers = EmptyDict
    /\ InitCallsIdle
    /\ InitResearchIdle
    /\ InitPrefIdle
    /\ InitResolveIdle
    /\ InitModelsOnly
    /\ InitHttp
    /\ InitChunkIdle

\* a call of get_valid_chatgpt_auth()
CallGetValidChatgptAuth ==
    /\ ~auth_result.called
    /\ LET result == GetValidChatgptAuth(login_mode, auth_file)
       IN /\ auth_result' = Ok(result.auth)
          /\ file_reads' = file_reads + (IF result.read THEN 1 ELSE 0)
    /\ UNCHANGED <<login_mode, auth_file, built, class_headers, callVars, researchVars, prefVars, resolveVars, modelVars,
                   chunkVars, httpVars>>

CHATGPT_BASE_URL == "https://chatgpt.com/backend-api/codex/"

OPENAI_BASE_URL == "https://api.openai.com/v1"

\* lines 218-223: the ChatGPT headers
ChatGPTHeaders(auth) ==
    [k \in {"Content-Type", "Authorization", "originator", "chatgpt-account-id"} |->
        CASE k = "Content-Type" -> "application/json"
          [] k = "Authorization" -> "Bearer " \o auth.access_token
          [] k = "originator" -> "codex_cli_rs"
          [] k = "chatgpt-account-id" -> auth.account_id]

\* line 218 as a slip would write it: the headers are assigned to the class
MutSetDefaultHeaders(obj, cls, headers) == [obj |-> obj, cls |-> headers]

\* line 218: self.DEFAULT_HEADERS = {...} sets the attribute of the object
SetDefaultHeaders(obj, cls, headers) ==
    [obj |-> [obj EXCEPT !.has_headers = TRUE, !.headers = headers], cls |-> cls]

\* kwargs.setdefault("base_url", url)
SetDefault(base_url, url) == IF base_url = Absent THEN url ELSE base_url

\* OpenAIModelProvider.__init__(api_key, **kwargs): the object and the class
\* attribute it leaves
OpenAIInit(api_key, base_url, chatgpt_auth, cls) ==
    LET obj == [api_key |-> api_key, base_url |-> Absent, has_headers |-> FALSE,
                headers |-> EmptyDict]
    IN IF ~chatgpt_auth.is_none /\ api_key = chatgpt_auth.access_token
       THEN LET set == SetDefaultHeaders(obj, cls, ChatGPTHeaders(chatgpt_auth))
            IN [set EXCEPT !.obj.base_url = SetDefault(base_url, CHATGPT_BASE_URL)]
       ELSE [obj |-> [obj EXCEPT !.base_url = SetDefault(base_url, OPENAI_BASE_URL)],
             cls |-> cls]

\* provider.DEFAULT_HEADERS: the attribute of the object, else of the class
DefaultHeaders(obj, cls) == IF obj.has_headers THEN obj.headers ELSE cls

\* the API keys the providers are constructed with
ApiKeys == {"chatgpt_access_token", "sk-standard_api_key", ""}

\* OpenAIModelProvider(api_key, base_url=...)
NewOpenAIModelProvider(api_key, base_url) ==
    /\ Len(built) < MaxProviders
    /\ LET result == GetValidChatgptAuth(login_mode, auth_file)
           init == OpenAIInit(api_key, base_url, result.auth, class_headers)
       IN /\ built' = Append(built, [base_url_given |-> base_url, obj |-> init.obj])
          /\ class_headers' = init.cls
          /\ file_reads' = file_reads + (IF result.read THEN 1 ELSE 0)
    /\ UNCHANGED <<login_mode, auth_file, auth_result, callVars, researchVars, prefVars, resolveVars, modelVars,
                   chunkVars, httpVars>>

NextAuth ==
    \/ CallGetValidChatgptAuth
    \/ \E api_key \in ApiKeys, base_url \in {Absent, "https://custom.example/v1"} :
          NewOpenAIModelProvider(api_key, base_url)

SpecAuth == InitAuth /\ [][NextAuth]_vars

\* the auth file holds a JSON object whose tokens give both identifiers
FileHasTokens(file) ==
    /\ file.state = "json"
    /\ file.data.kind = "object"
    /\ file.data.tokens.kind = "object"
    /\ file.data.tokens.members.access_token \notin {Absent, None, ""}
    /\ file.data.tokens.members.account_id \notin {Absent, None, ""}

\* C13: get_valid_chatgpt_auth returns an auth record exactly when
\* OPENAI_CHATGPT_LOGIN_MODE is true in any letter case and auth.json exists,
\* parses and gives a non-empty tokens.access_token and tokens.account_id; the
\* record carries these two; in every other case it returns None; it never
\* raises; when the mode is off the auth file is not looked at.
C13_ValidChatgptAuth ==
    [][(~auth_result.called /\ auth_result'.called) =>
          LET enabled == login_mode \in {"true", "TRUE", "True", "tRuE"}
              auth == auth_result'.value
          IN /\ auth_result'.raised = None
             /\ ~auth.is_none <=> (enabled /\ FileHasTokens(auth_file))
             /\ ~auth.is_none =>
                   /\ auth.access_token = auth_file.data.tokens.members.access_token
                   /\ auth.account_id = auth_file.data.tokens.members.account_id
             /\ ~enabled => file_reads' = file_reads
             /\ UNCHANGED <<login_mode, auth_file>>]_vars

\* C13 witness: the mode is True and the tokens give both identifiers, and the
\* auth record has been returned
C13_Witness ==
    /\ login_mode = "True"
    /\ auth_result.called
    /\ ~auth_result.value.is_none
    /\ auth_result.value.access_token = "chatgpt_access_token"
    /\ auth_result.value.account_id = "chatgpt_account_id"
    /\ file_reads = 1

\* the headers of the ChatGPT backend
IsChatGPTHeader(k) == k \in {"Authorization", "originator", "chatgpt-account-id"}

\* C14: every OpenAIModelProvider has the ChatGPT headers and, when constructed
\* without a base_url, the base URL of the ChatGPT backend, exactly when the
\* mode is on, the auth file gives both identifiers and api_key is the access
\* token; otherwise it has none of the ChatGPT headers and, when constructed
\* without a base_url, https://api.openai.com/v1; a base_url given to the
\* constructor is kept.  This holds for each provider after any sequence of
\* constructions.
C14_BackendSelection ==
    \A i \in 1..Len(built) :
        LET obj == built[i].obj
            given == built[i].base_url_given
            headers == DefaultHeaders(obj, class_headers)
            chatgpt == /\ IsChatgptModeEnabled(login_mode)
                       /\ FileHasTokens(auth_file)
                       /\ obj.api_key = auth_file.data.tokens.members.access_token
        IN IF chatgpt
           THEN /\ obj.base_url = (IF given = Absent THEN CHATGPT_BASE_URL ELSE given)
                /\ headers["Authorization"] = "Bearer " \o obj.api_key
                /\ headers["originator"] = "codex_cli_rs"
                /\ headers["chatgpt-account-id"] = auth_file.data.tokens.members.account_id
           ELSE /\ obj.base_url = (IF given = Absent THEN OPENAI_BASE_URL ELSE given)
                /\ \A k \in DOMAIN headers : ~IsChatGPTHeader(k)

\* C14 witness: a provider constructed with the access token, then one with
\* another key
C14_Witness ==
    /\ Len(built) = 2
    /\ built[1].obj.api_key = "chatgpt_access_token"
    /\ built[1].obj.base_url = CHATGPT_BASE_URL
    /\ built[1].obj.has_headers
    /\ built[2].obj.api_key = "sk-standard_api_key"
    /\ built[2].obj.base_url = OPENAI_BASE_URL
    /\ DefaultHeaders(built[2].obj, class_headers) = EmptyDict

(***************************************************************************)
(* SpecResearch: ResearchTool.format_response.  The response text is the   *)
(* sequence of its segments: plain text, a Markdown link, a bare URL, or a *)
(* citation block left by the model; a citation is its title, URL and      *)
(* date, a bare URL being a citation without title.                        *)
(***************************************************************************)
Segment(kind, title, url) == [kind |-> kind, title |-> title, url |-> url]

Citation(title, url, date) == [title |-> title, url |-> url, date |-> date]

\* str.strip() of the titles and dates
Strip(s) == IF s = " " THEN "" ELSE s

\* the URL begins with http:// or https://
IsHttp(url) == url \in {"https://example.com/article", "https://another.com/source"}

\* lines 279-291: the citation of one search result, if it has a URL
ResultCitation(result) ==
    IF Strip(result.title) # ""
    THEN Citation(Strip(result.title), result.url, Strip(result.date))
    ELSE Citation("", result.url, "")

\* lines 277-291: the citations of metadata["search_results"]
RECURSIVE SearchResultCitations(_)
SearchResultCitations(results) ==
    IF results = <<>> THEN <<>>
    ELSE (IF Head(results).url # "" THEN <<ResultCitation(Head(results))>> ELSE <<>>)
            \o SearchResultCitations(Tail(results))

\* `field in metadata and metadata[field]`, for a list
Field(metadata, field) == IF HasKey(metadata, field) THEN metadata[field] ELSE <<>>

\* lines 303-313: the citations of the dictionaries of metadata["sources"]
RECURSIVE SourceCitations(_)
SourceCitations(sources) ==
    IF sources = <<>> THEN <<>>
    ELSE LET source == Head(sources)
         IN (IF source.is_dict /\ source.url # ""
             THEN <<Citation(Strip(source.title), source.url, "")>> ELSE <<>>)
               \o SourceCitations(Tail(sources))

\* lines 314-315: the strings of metadata["sources"]
RECURSIVE SourceStrings(_)
SourceStrings(sources) ==
    IF sources = <<>> THEN <<>>
    ELSE (IF ~Head(sources).is_dict THEN <<Head(sources).url>> ELSE <<>>)
            \o SourceStrings(Tail(sources))

\* `x in list`
Contains(list, x) == \E i \in 1..Len(list) : list[i] = x

\* lines 318-320 and 333-335: the URLs not yet among the citations are
\* appended as bare URLs
RECURSIVE AppendUrls(_, _)
AppendUrls(citations_found, urls) ==
    IF urls = <<>> THEN citations_found
    ELSE LET url == Head(urls)
         IN AppendUrls(IF url # "" /\ ~Contains(citations_found, Citation("", url, ""))
                       THEN Append(citations_found, Citation("", url, ""))
                       ELSE citations_found,
                       Tail(urls))

\* lines 294-321: the citations of the legacy fields
LegacyCitations(metadata) ==
    AppendUrls(SourceCitations(Field(metadata, "sources")),
               Field(metadata, "citations") \o Field(metadata, "source_urls")
                  \o Field(metadata, "citation_urls")
                  \o SourceStrings(Field(metadata, "sources")))

\* lines 273-321: the citations of the metadata
MetadataCitations(info) ==
    IF ~HasKey(info, "metadata") THEN <<>>
    ELSE LET from_results == SearchResultCitations(Field(info["metadata"], "search_results"))
         IN IF from_results # <<>> THEN from_results ELSE LegacyCitations(info["metadata"])

\* lines 326-329: re.findall of the Markdown links
RECURSIVE MarkdownLinks(_)
MarkdownLinks(text) ==
    IF text = <<>> THEN <<>>
    ELSE (IF Head(text).kind = "link" THEN <<Citation(Head(text).title, Head(text).url, "")>>
          ELSE <<>>) \o MarkdownLinks(Tail(text))

\* line 332: re.findall of the bare URLs, those inside links and blocks too
RECURSIVE PlainUrls(_)
PlainUrls(text) ==
    IF text = <<>> THEN <<>>
    ELSE (IF Head(text).url # "" THEN <<Head(text).url>> ELSE <<>>) \o PlainUrls(Tail(text))

\* lines 323-335: the citations of the response text
TextCitations(text) == AppendUrls(MarkdownLinks(text), PlainUrls(text))

\* lines 342-348: the URL a citation is compared by: the one the pattern
\* finds in a Markdown link, else the citation as a whole
UrlKey(citation) ==
    IF citation.title # "" /\ ~IsHttp(citation.url) THEN citation
    ELSE Citation("", citation.url, "")

\* lines 337-352: the citations without those whose URL was seen
RECURSIVE Unique(_, _)
Unique(citations, seen_urls) ==
    IF citations = <<>> THEN <<>>
    ELSE IF UrlKey(Head(citations)) \in seen_urls THEN Unique(Tail(citations), seen_urls)
    ELSE <<Head(citations)>>
            \o Unique(Tail(citations), seen_urls \cup {UrlKey(Head(citations))})

\* lines 360-373: the citation blocks are cut out of the text
WithoutBlocks(text) ==
    LET NoBlock(segment) == segment.kind # "block" IN SelectSeq(text, NoBlock)

\* lines 377-378: the header of the section
Header(info) ==
    IF HasKey(info, "metadata") /\ HasKey(info["metadata"], "citations") THEN "## Citations"
    ELSE "## Sources"

\* lines 380-381: the numbered lines
Numbered(citations) == [i \in 1..Len(citations) |-> [number |-> i, citation |-> citations[i]]]

\* ResearchTool.format_response: the text, the citation section, the related
\* questions, the efficiency line and the export line of the result
FormatResponse(text, info, export) ==
    LET from_metadata == MetadataCitations(info)
        citations_found == IF from_metadata # <<>> THEN from_metadata ELSE TextCitations(text)
        unique_citations == Unique(citations_found, {})
        metadata == IF HasKey(info, "metadata") THEN info["metadata"] ELSE EmptyDict
    IN [text |-> IF unique_citations # <<>> THEN WithoutBlocks(text) ELSE text,
        header |-> IF unique_citations # <<>> THEN Header(info) ELSE None,
        citations |-> Numbered(unique_citations),
        related_questions |-> Field(metadata, "related_questions"),
        efficiency |-> IF HasKey(metadata, "search_efficiency")
                       THEN [efficiency |-> metadata["search_efficiency"],
                             queries_used |-> IF HasKey(metadata, "search_queries_count")
                                              THEN metadata["search_queries_count"]
                                              ELSE "unknown"]
                       ELSE [efficiency |-> None, queries_used |-> None],
        export |-> export]

\* the segments of the response texts
Segments ==
    {Segment("text", "", ""),
     Segment("link", "Example Article", "https://example.com/article"),
     Segment("url", "", "https://example.com/article"),
     Segment("url", "", "https://another.com/source"),
     Segment("block", "", "https://another.com/source")}

\* the texts of at most k segments
RECURSIVE TextsUpTo(_)
TextsUpTo(k) ==
    IF k = 0 THEN {<<>>}
    ELSE LET shorter == TextsUpTo(k - 1)
         IN shorter \cup {Append(text, segment) : text \in shorter, segment \in Segments}

Result(title, url, date) == [title |-> title, url |-> url, date |-> date]

Source(is_dict, title, url) == [is_dict |-> is_dict, title |-> title, url |-> url]

\* the metadata dictionaries of model_info
MetadataInputs ==
    {EmptyDict,
     [search_results |->
         <<Result("Example Article", "https://example.com/article", "2025-01-01"),
           Result("Another Source", "https://another.com/source", ""),
           Result(" ", "https://example.com/article", "2025-01-01")>>],
     [search_results |-> <<Result("Example Article", "https://example.com/article", "")>>,
      citations |-> <<"https://example.com/article">>,
      citation_urls |-> <<"https://example.com/article">>,
      sources |-> <<Source(TRUE, "Example Article", "https://example.com/article")>>,
      source_urls |-> <<"https://example.com/article">>],
     [search_results |-> <<Result("Example Article", "", "")>>,
      citations |-> <<"https://example.com/article", "https://another.com/source">>],
     [search_results |-> <<Result("A", "ftp://example.com/a", ""),
                           Result("B", "ftp://example.com/a", "")>>],
     [citations |-> <<"https://example.com/article", "https://another.com/source",
                      "https://example.com/article">>],
     [source_urls |-> <<"https://another.com/source", "">>],
     [citations |-> <<>>, citation_urls |-> <<"https://example.com/article">>],
     [sources |-> <<Source(TRUE, "Example Article", "https://example.com/article"),
                    Source(FALSE, "", "https://example.com/article"),
                    Source(TRUE, "", "https://another.com/source")>>],
     [related_questions |-> <<"What next?">>, search_efficiency |-> "2.00",
      search_queries_count |-> "2"],
     [search_efficiency |-> "2.00"]}

\* model_info: None, a dictionary without metadata, or one with metadata
ModelInfoInputs == {NoObject} \cup {[k \in {"metadata"} |-> metadata] : metadata \in MetadataInputs}

InitResearch ==
    /\ response_text \in TextsUpTo(MaxSegments)
    /\ model_info \in ModelInfoInputs
    /\ export_enabled \in BOOLEAN
    /\ formatted = NoResult
    /\ InitCallsIdle
    /\ InitAuthIdle
    /\ InitPrefIdle
    /\ InitResolveIdle
    /\ InitModelsOnly
    /\ InitHttp
    /\ InitChunkIdle

\* lines 402-407: no export line, the status of the export, or its failure
ExportOutcomes(enabled) == IF enabled THEN {"exported", "export failed"} ELSE {"no export"}

\* format_response(response, request, model_info)
CallFormatResponse(export) ==
    /\ ~formatted.called
    /\ formatted' = Ok(FormatResponse(response_text, model_info, export))
    /\ UNCHANGED <<response_text, model_info, export_enabled, callVars, authVars, prefVars,
                   resolveVars, modelVars,
                   chunkVars, httpVars>>

NextResearch == \E export \in ExportOutcomes(export_enabled) : CallFormatResponse(export)

SpecResearch == InitResearch /\ [][NextResearch]_vars

\* the URLs of the search results of the metadata
SearchResultUrls(info) ==
    IF ~HasKey(info, "metadata") THEN {}
    ELSE LET results == Field(info["metadata"], "search_results")
         IN {results[i].url : i \in 1..Len(results)} \ {""}

\* the URLs of the legacy fields of the metadata
LegacyUrls(info) ==
    IF ~HasKey(info, "metadata") THEN {}
    ELSE LET metadata == info["metadata"]
             Urls(list) == {list[i] : i \in 1..Len(list)}
             sources == Field(metadata, "sources")
         IN (Urls(Field(metadata, "citations")) \cup Urls(Field(metadata, "source_urls"))
                \cup Urls(Field(metadata, "citation_urls"))
                \cup {sources[i].url : i \in 1..Len(sources)}) \ {""}

\* the URLs in the response text
TextUrls(text) == {text[i].url : i \in 1..Len(text)} \ {""}

\* the URLs the section lists
ListedUrls(lines) == {lines[i].citation.url : i \in 1..Len(lines)}

\* C19: format_response appends a citation section exactly when a source is
\* found; the section lists the URLs of search_results if there are any, else
\* those of the legacy fields if there are any, else those of the text; no URL
\* is listed twice, the lines are numbered from 1; the header is ## Sources
\* when the list comes from search_results and ## Citations when it comes from
\* the citations field; without metadata and URL in the text, and without
\* export, the response is returned as it was.
C19_CitationSection ==
    formatted.called =>
        LET out == formatted.value
            from_results == SearchResultUrls(model_info)
            from_legacy == LegacyUrls(model_info)
            from_text == TextUrls(response_text)
            found == from_results \cup from_legacy \cup from_text
        IN /\ out.header # None <=> found # {}
           /\ out.citations # <<>> <=> found # {}
           /\ ListedUrls(out.citations) =
                 (IF from_results # {} THEN from_results
                  ELSE IF from_legacy # {} THEN from_legacy ELSE from_text)
           /\ \A i, j \in 1..Len(out.citations) :
                 i # j => out.citations[i].citation.url # out.citations[j].citation.url
           /\ \A i \in 1..Len(out.citations) : out.citations[i].number = i
           /\ from_results # {} => out.header = "## Sources"
           /\ (from_results = {} /\ HasKey(model_info, "metadata")
                 /\ Field(model_info["metadata"], "citations") # <<>>) =>
                 out.header = "## Citations"
           /\ (found = {} /\ out.export = "no export" /\ ~HasKey(model_info, "metadata")) =>
                 /\ out.text = response_text
                 /\ out.related_questions = <<>>
                 /\ out.efficiency.efficiency = None

\* what the code does: as C19, except that the header is ## Citations
\* whenever the metadata has a citations key, whatever the list was built
\* from, and that two Markdown citations whose URL is not an http(s) URL are
\* both listed
CitationSectionOfTheCode ==
    formatted.called =>
        LET out == formatted.value
            from_results == SearchResultUrls(model_info)
            from_legacy == LegacyUrls(model_info)
            from_text == TextUrls(response_text)
            found == from_results \cup from_legacy \cup from_text
        IN /\ out.header # None <=> found # {}
           /\ ListedUrls(out.citations) =
                 (IF from_results # {} THEN from_results
                  ELSE IF from_legacy # {} THEN from_legacy ELSE from_text)
           /\ \A i, j \in 1..Len(out.citations) :
                 (i # j /\ IsHttp(out.citations[i].citation.url)) =>
                    out.citations[i].citation.url # out.citations[j].citation.url
           /\ \A i \in 1..Len(out.citations) : out.citations[i].number = i
           /\ found # {} =>
                 (out.header = "## Citations" <=>
                     (HasKey(model_info, "metadata")
                         /\ HasKey(model_info["metadata"], "citations")))

\* C20: a request takes the steps of POST /mcp in this order: the Accept
\* check, the session lookup-or-create, the parsing of the body, the dispatch.
\* A request without Accept header, or with one that names neither
\* text/event-stream nor */*, ends with 406, the session map as it was and no
\* handler invoked.  Any other request first gets its session: the entry it
\* names, or one new entry that is not initialized.  A body that does not
\* parse then ends the request with 400, the new entry still in the map and
\* not initialized, and no handler invoked; a handler is invoked only after
\* the body has parsed and the response has started.
C20_OrderOfChecks ==
    [][\A r \in Slots :
          Stepping(r) =>
             LET before == req[r]
                 after == req'[r]
                 accept == after.request.accept
                 header_sid == after.request.header_sid
             IN /\ before.pc = "idle" =>
                      IF accept = None \/ (~HasEventStream(accept) /\ ~HasWildcard(accept))
                      THEN /\ after.status = 406
                           /\ after.pc = "done"
                           /\ after.session_id = None
                           /\ after.calls = 0
                           /\ after.handler = None
                           /\ after.frames = <<>>
                           /\ sessions' = sessions
                           /\ heap' = heap
                      ELSE /\ after.pc = "parse"
                           /\ after.status = 0
                           /\ after.calls = 0
                           /\ after.session_id \in DOMAIN sessions'
                           /\ IF header_sid \in DOMAIN sessions
                              THEN sessions' = sessions /\ heap' = heap
                              ELSE /\ after.session_id \notin DOMAIN sessions
                                   /\ DOMAIN sessions' = DOMAIN sessions \cup {after.session_id}
                                   /\ Len(heap') = Len(heap) + 1
                                   /\ heap'[sessions'[after.session_id]] = [initialized |-> FALSE]
                /\ before.pc = "parse" =>
                      /\ sessions' = sessions
                      /\ heap' = heap
                      /\ after.calls = 0
                      /\ after.handler = None
                      /\ IF before.request.body.kind = "invalid"
                         THEN /\ after.status = 400
                              /\ after.pc = "done"
                              /\ after.frames = <<>>
                              /\ after.session_id \in DOMAIN sessions
                              /\ after.session_id # header_sid =>
                                    heap[sessions[after.session_id]] = [initialized |-> FALSE]
                         ELSE /\ after.status = 200
                              /\ after.pc = "stream"
                /\ after.calls > before.calls =>
                      /\ before.pc = "stream"
                      /\ before.status = 200
                      /\ before.request.body.kind # "invalid"]_vars

\* C20 witness: a request that named an unknown session id and whose body did
\* not parse was answered 400; its new session entry is in the map, not
\* initialized, and no handler was invoked
C20_Witness ==
    \E r \in Slots :
        /\ req[r].pc = "done"
        /\ req[r].status = 400
        /\ req[r].request.header_sid \in UUIDs
        /\ req[r].session_id # req[r].request.header_sid
        /\ req[r].session_id \in DOMAIN sessions
        /\ heap[sessions[req[r].session_id]] = [initialized |-> FALSE]
        /\ req[r].calls = 0

(***************************************************************************)
(* The session map over sequences of requests.                             *)
(***************************************************************************)
\* the step is the arrival of a request that passes the Accept check and
\* names no session id of the map
ArrivalWithoutKnownSession ==
    \E r \in Slots :
        /\ Stepping(r)
        /\ req[r].pc = "idle"
        /\ req'[r].status # 406
        /\ req'[r].request.header_sid \notin DOMAIN sessions

\* the session map in a state: every entry is a dictionary with the one field
\* initialized, a boolean, which is true exactly for the sessions on which a
\* request of method initialize has been served
C21_SessionEntries ==
    \A id \in DOMAIN sessions :
        /\ sessions[id] \in DOMAIN heap
        /\ DOMAIN heap[sessions[id]] = {"initialized"}
        /\ heap[sessions[id]].initialized \in BOOLEAN
        /\ heap[sessions[id]].initialized <=> id \in initialize_served

\* the session map in a step: no entry is removed or replaced, the size grows
\* by one with the arrival of an accepted request without a known session id
\* and not otherwise, and no flag returns to false
C21_SessionSteps ==
    /\ DOMAIN sessions \subseteq DOMAIN sessions'
    /\ \A id \in DOMAIN sessions : sessions'[id] = sessions[id]
    /\ Cardinality(DOMAIN sessions') =
          Cardinality(DOMAIN sessions) + (IF ArrivalWithoutKnownSession THEN 1 ELSE 0)
    /\ \A id \in DOMAIN sessions :
          heap[sessions[id]].initialized => heap'[sessions'[id]].initialized
    /\ initialize_served \subseteq initialize_served'

\* C21: over every sequence of requests, no session entry is removed, the
\* size of the map never decreases and grows by exactly one for each accepted
\* request that arrives without a known session id; every entry has the one
\* boolean field initialized; the flag of a session is true if and only if a
\* request of method initialize has been served on that session, whether or
\* not that request ended with an error, and once true it stays true.
C21_SessionMapInvariants == [](C21_SessionEntries) /\ [][C21_SessionSteps]_vars

\* C21 witness: two sessions; on the first an initialize was served that ended
\* with an error frame, and its flag is true; the second was created by a
\* later request and is not initialized
C21_Witness ==
    /\ Cardinality(DOMAIN sessions) = 2
    /\ \E id \in DOMAIN sessions : heap[sessions[id]].initialized
    /\ \E id \in DOMAIN sessions : ~heap[sessions[id]].initialized
    /\ \E r \in Slots :
          /\ req[r].pc = "done"
          /\ req[r].request.body.method = "initialize"
          /\ req[r].request.header_sid = req[r].session_id
          /\ req[r].outcome = ImportError
          /\ heap[req[r].session].initialized
          /\ req[r].session_id \in initialize_served

(***************************************************************************)
(* SpecInterference: one request in slot 1, interleaved at its             *)
(* suspension points with requests of method initialize in the other       *)
(* slots, which create sessions and set their flags before, while and      *)
(* after the request of slot 1 is served.                                  *)
(***************************************************************************)
InitializeRequests ==
    {Request("text/event-stream", None, header_sid, DefaultQuery,
             ObjectBody("initialize", "1", NoParams)) : header_sid \in {None} \cup UUIDs}

\* the requests of slot 1: every method, a body that is no JSON and one that
\* is no object, tools/call and prompts/get with every shape of arguments,
\* each with every session header, and a tools/list of two chunk frames
InterferenceRequests ==
    {Request("text/event-stream", None, header_sid, DefaultQuery, body) :
        header_sid \in HeaderSidInputs,
        body \in {[NoBody EXCEPT !.kind = "invalid"], [NoBody EXCEPT !.kind = "nonobject"]}
                 \cup {ObjectBody(method, "1", NoParams) :
                         method \in Methods \cup {"bogus/method", None}}
                 \cup {ObjectBody(method, "1", params) :
                         method \in {"tools/call", "prompts/get"},
                         params \in {q \in ParamsInputs : q.shape = "object" => q.name = "chat"}}}
    \cup {Request("text/event-stream", None, header_sid,
                  [DefaultQuery EXCEPT !.view = "full", !.chunk_size = "8"],
                  ObjectBody("tools/list", "1", NoParams)) : header_sid \in {None} \cup UUIDs}

\* an initialize of another client arrives: it names no session or the one of
\* the request of slot 1; the other slots are taken in order
ArriveInitialize(r, request) ==
    /\ request.header_sid \in {None, req[1].session_id}
    /\ \A q \in Slots \ {1} : q < r => req[q].pc # "idle"
    /\ Arrive(r, request)

NextInterference ==
    \/ \E request \in InterferenceRequests : Arrive(1, request)
    \/ \E r \in Slots \ {1} : \E request \in InitializeRequests : ArriveInitialize(r, request)
    \/ \E r \in Slots : ParseBody(r)
    \/ \E r \in Slots : StartStream(r)
    \/ \E outcome \in Outcomes : HandlerDone(1, outcome)
    \/ YieldChunk(1)

SpecInterference == Init /\ [][NextInterference]_vars

\* the run of _handle_mcp_message (lines 194-373) for the request on a server
\* that holds one session, not initialized, and the handler ending with outcome:
\* the frames of the whole stream
ReferenceFrames(request, outcome) ==
    LET rec == [IdleReq EXCEPT !.pc = "stream", !.request = request,
                               !.session_id = Uuid(1), !.session = 1,
                               !.chunk_size_kb = ChunkSizeKb(request.query),
                               !.status = 200]
        started == IF request.body.kind # "object" THEN [rec EXCEPT !.pc = "done"]
                   ELSE Dispatch(rec, IF outcome = NotCalled THEN Returned ELSE outcome)
        ended == IF started.pc # "await" THEN started
                 ELSE IF outcome = Returned THEN OnReturn([started EXCEPT !.outcome = outcome])
                 ELSE OnException([started EXCEPT !.outcome = outcome], outcome)
    IN ended.frames \o ended.pending

\* the frames sent so far and those still to be sent
StreamOf(r) == req[r].frames \o req[r].pending

\* C22: the frames of a request are those the same request (method, id,
\* params, query) with the same handler result gets on a server with one new
\* session: they do not depend on whether the session of the request is new or
\* named by the client, initialized or not, alone in the map or not, nor on
\* where a concurrent initialize on the same session falls.  In particular
\* tools/list, tools/call, prompts/list and prompts/get whose handler returns
\* are answered with result frames on a session that is not initialized.
C22_ResponsesIgnoreSessionState ==
    \A r \in Slots :
        (req[r].status = 200 /\ req[r].pc \in {"chunks", "done"}) =>
            /\ StreamOf(r) = ReferenceFrames(req[r].request, req[r].outcome)
            /\ (req[r].request.body.kind = "object"
                   /\ req[r].request.body.method
                         \in {"tools/list", "tools/call", "prompts/list", "prompts/get"}
                   /\ req[r].outcome = Returned) =>
                  /\ StreamOf(r) # <<>>
                  /\ \A i \in 1..Len(StreamOf(r)) : ~StreamOf(r)[i].is_error

\* C22 witness: a tools/list on a session the server created for it has sent
\* the first of its chunks; an initialize that named this session has been
\* served meanwhile, and the stream is still the one of the reference run
C22_Witness ==
    \E r \in Slots \ {1} :
        /\ req[1].pc = "chunks"
        /\ Len(req[1].frames) = 1
        /\ req[1].request.body.method = "tools/list"
        /\ req[1].session_id # req[1].request.header_sid
        /\ req[r].pc = "done"
        /\ req[r].request.header_sid = req[1].session_id
        /\ heap[req[1].session].initialized
        /\ Len(ReferenceFrames(req[1].request, req[1].outcome)) = 2

(***************************************************************************)
(* The stream of a request.                                                *)
(***************************************************************************)
\* the request of slot r was accepted: it passed the Accept check and its body
\* was read as JSON, so that the response of status 200 has begun
Accepted(r) == req[r].status = 200

\* the tools/list response of the request is larger than its threshold
ExceedsThreshold(r) ==
    JsonLenToolsResponse(ToolsResponse(req[r].request.body.id,
                                       ToolList(req[r].request.query, Catalogue)))
        > req[r].chunk_size_kb * 1024

\* what C23 says of a stream that has ended
AnsweredStream(r) ==
    LET body == req[r].request.body
        chunked == body.method = "tools/list" /\ req[r].outcome = Returned /\ ExceedsThreshold(r)
    IN /\ Len(req[r].frames) >= 1
       /\ \A i \in 1..Len(req[r].frames) :
             /\ req[r].frames[i].jsonrpc = "2.0"
             /\ req[r].frames[i].id = body.id
       /\ IF chunked
          THEN /\ Len(req[r].frames) =
                     Len(ChunkToolsResponse(ToolList(req[r].request.query, Catalogue),
                                            body.id, req[r].chunk_size_kb))
               /\ \A i \in 1..Len(req[r].frames) :
                     req[r].frames[i].tools # ToolList(req[r].request.query, Catalogue)
          ELSE Len(req[r].frames) = 1

\* C23: every accepted request whose method is not notifications/initialized
\* is answered: when its stream has ended it holds at least one frame, every
\* frame has jsonrpc "2.0" and the id of the request, and the stream is one
\* frame, or one frame per chunk for a tools/list response larger than the
\* threshold.
C23_EveryRequestAnswered ==
    \A r \in Slots :
        (Accepted(r) /\ req[r].pc = "done"
            /\ req[r].request.body.method # "notifications/initialized") =>
            AnsweredStream(r)

\* what the code does: as C23, for the requests whose body is a JSON object
AnsweredWhenBodyIsObject ==
    \A r \in Slots :
        (Accepted(r) /\ req[r].pc = "done"
            /\ req[r].request.body.method # "notifications/initialized") =>
            IF req[r].request.body.kind = "object"
            THEN AnsweredStream(r) /\ ~req[r].aborted
            ELSE req[r].frames = <<>> /\ req[r].aborted

\* the scheduling of the event loop: a task that can run does run, and an
\* awaited handler returns or raises
SpecFair ==
    /\ Spec
    /\ WF_vars(ParseBody(1))
    /\ WF_vars(StartStream(1))
    /\ WF_vars(\E outcome \in Outcomes : HandlerDone(1, outcome))
    /\ WF_vars(YieldChunk(1))

\* the stream of every accepted request ends
StreamEnds == (req[1].status = 200) ~> (req[1].pc = "done")

\* C24: a request of method notifications/initialized gets no response frame:
\* the step in which its generator runs ends the stream with zero frames,
\* invokes no handler and leaves the session map and every initialized flag as
\* they were; the HTTP response, of status 200, carries the session id of the
\* request in Mcp-Session-Id.
C24_NotificationWithoutResponse ==
    [][\A r \in Slots :
          (Stepping(r) /\ req[r].pc = "stream" /\ req[r].request.body.kind = "object"
              /\ req[r].request.body.method = "notifications/initialized") =>
             /\ req'[r].pc = "done"
             /\ req'[r].frames = <<>>
             /\ req'[r].pending = <<>>
             /\ req'[r].calls = 0
             /\ req'[r].handler = None
             /\ req'[r].outcome = NotCalled
             /\ heap' = heap
             /\ sessions' = sessions
             /\ heap'[req'[r].session].initialized = heap[req[r].session].initialized
             /\ req'[r].status = 200
             /\ req'[r].resp_sid = req[r].session_id
             /\ req'[r].resp_sid \in DOMAIN sessions']_vars

\* C24 witness: a notifications/initialized without session header has been
\* served: no frame, no handler, the generated id in the response header and
\* the session not initialized
C24_Witness ==
    \E r \in Slots :
        /\ req[r].pc = "done"
        /\ req[r].status = 200
        /\ req[r].request.body.method = "notifications/initialized"
        /\ req[r].request.header_sid = None
        /\ req[r].resp_sid = req[r].session_id
        /\ req[r].frames = <<>>
        /\ req[r].calls = 0
        /\ ~heap[req[r].session].initialized

\* C25: whatever the chunk_size query parameter, the chunk size of a request
\* is an integer K with 8 <= K <= 50: 20 when the parameter is absent or is no
\* integer, min(max(requested, 8), 50) when it is one, zero and negative
\* values included; the chunking threshold K * 1024 lies between 8192 and
\* 51200.
C25_ChunkSizeWithinBounds ==
    \A r \in Slots :
        Entered(r) =>
            LET text == req[r].request.query.chunk_size
                K == req[r].chunk_size_kb
            IN /\ K \in Int
               /\ 8 <= K /\ K <= 50
               /\ 8192 <= K * 1024 /\ K * 1024 <= 51200
               /\ text = None => K = 20
               /\ (text # None /\ ~ParseInt(text).ok) => K = 20
               /\ (text # None /\ ParseInt(text).ok) =>
                     K = Min(Max(ParseInt(text).value, 8), 50)

\* C25 witness: a tools/list with chunk_size=-1 has been served with the
\* minimum chunk size
C25_Witness ==
    \E r \in Slots :
        /\ req[r].pc = "done"
        /\ req[r].status = 200
        /\ req[r].request.query.chunk_size = "-1"
        /\ req[r].chunk_size_kb = MIN_CHUNK_SIZE_KB
        /\ Len(req[r].frames) = 1

(***************************************************************************)
(* tools/list: the page of the catalogue.                                  *)
(***************************************************************************)
\* the names of the tools of a list, in order
NamesOf(tool_list) == [i \in 1..Len(tool_list) |-> tool_list[i].name]

\* the names of the tools of the frames of a stream, in order
RECURSIVE FrameToolNames(_)
FrameToolNames(frames) ==
    IF frames = <<>> THEN <<>>
    ELSE NamesOf(Head(frames).tools) \o FrameToolNames(Tail(frames))

\* the names of the catalogue entries at the positions (page-1)*L .. page*L - 1,
\* counted from 0
PageNames(page, L) ==
    LET n == Len(Catalogue)
        first == (page - 1) * L
        size == Max(0, Min(page * L, n) - first)
    IN [i \in 1..size |-> Catalogue[first + i].name]

\* the elements of a sequence
Range(seq) == {seq[i] : i \in 1..Len(seq)}

\* a tools/list of slot r whose handler has returned
ListServed(r) ==
    /\ Dispatched(r)
    /\ req[r].request.body.method = "tools/list"
    /\ req[r].outcome = Returned

\* the tools a tools/list returns, where `given` says whether the request
\* counts as one with an ids parameter
PaginationOf(r, given) ==
    LET query == req[r].request.query
        page == ParseInt(IF query.page = None THEN "1" ELSE query.page)
        limit == ParseInt(IF query.limit = None THEN "50" ELSE query.limit)
        L == Min(limit.value, 1000)
        returned == FrameToolNames(StreamOf(r))
        PageWithLimit(p) ==
            NamesOf(SelectTools([DefaultQuery EXCEPT !.page = ToString(p), !.limit = query.limit],
                                Catalogue))
    IN /\ (~given /\ page.ok /\ limit.ok /\ page.value >= 1 /\ limit.value >= 1) =>
             /\ returned = PageNames(page.value, L)
             /\ \A p \in 1..Len(Catalogue) : PageWithLimit(p) = PageNames(p, L)
             /\ \A p, q \in 1..Len(Catalogue) :
                   p # q => Range(PageWithLimit(p)) \cap Range(PageWithLimit(q)) = {}
             /\ PageWithLimit(1) \o PageWithLimit(2) \o PageWithLimit(3) = NamesOf(Catalogue)
             /\ (page.value - 1) * L >= Len(Catalogue) => returned = <<>>
             /\ req[r].pc = "done" => ~req[r].frames[1].is_error
       /\ (~given /\ ~(page.ok /\ limit.ok)) => returned = NamesOf(Catalogue)
       /\ given =>
             returned = NamesOf(SelectTools([query EXCEPT !.page = None, !.limit = None],
                                            Catalogue))

\* C26 (amended): without an ids parameter, or with an empty one, and with
\* integers page >= 1 and limit >= 1 (defaults 1 and 50), tools/list returns
\* the catalogue entries at the positions (page-1)*L .. page*L - 1 with
\* L = min(limit, 1000), in catalogue order; the pages of one limit are
\* pairwise disjoint and their concatenation is the catalogue; a page past the
\* end is an empty list, not an error; a page or limit that is no integer
\* returns the whole catalogue; with a non-empty ids parameter page and limit
\* are ignored.
C26_Pagination ==
    \A r \in Slots :
        ListServed(r) =>
            PaginationOf(r, req[r].request.query.ids \notin {None, ""})

\* C26 witness: page 2 with limit 2 of the three tools is the third tool
C26_Witness ==
    \E r \in Slots :
        /\ ListServed(r)
        /\ req[r].pc = "done"
        /\ req[r].request.query.page = "2"
        /\ req[r].request.query.limit = "2"
        /\ req[r].request.query.ids = None
        /\ FrameToolNames(req[r].frames) = << Catalogue[3].name >>

\* C26 as stated: page and limit are ignored whenever the request has an ids
\* parameter
C26_IdsGivenIgnoresPage ==
    \A r \in Slots :
        ListServed(r) => PaginationOf(r, req[r].request.query.ids # None)

(***************************************************************************)
(* tools/call: the arguments the tool handler receives.                    *)
(***************************************************************************)
\* the arguments object of the client: params.arguments, {} when it is absent
ClientArguments(params) ==
    IF params.shape = "object" /\ params.arguments.shape = "dict"
    THEN params.arguments.dict ELSE EmptyDict

\* the handler of the tools/call of slot r has been invoked
ToolCalled(r) ==
    /\ req[r].request.body.kind = "object"
    /\ req[r].request.body.method = "tools/call"
    /\ req[r].calls = 1

\* what the handler of the tools/call of slot r has received
ReceivedArguments(r) ==
    LET params == req[r].request.body.params
        tool_name == IF params.shape = "object" THEN params.name ELSE None
        client == ClientArguments(params)
        received == req[r].call_args
        workflow == tool_name \in {"thinkdeep", "planner", "consensus", "codereview",
                                   "precommit", "debug", "secaudit", "docgen", "analyze",
                                   "refactor", "tracer", "testgen"}
    IN /\ req[r].handler = "handle_call_tool"
       /\ req[r].call_name = tool_name
       /\ IF "prompt" \in DOMAIN client /\ tool_name \notin {"listmodels", "version"}
          THEN /\ DOMAIN received =
                     {"prompt", "model"}
                        \cup (IF workflow
                              THEN {"step", "step_number", "total_steps",
                                    "next_step_required", "findings"}
                              ELSE {})
               /\ received["prompt"] = client["prompt"]
               /\ received["model"] = "auto"
               /\ workflow =>
                     /\ received["step"] = client["prompt"]
                     /\ received["step_number"] = "1"
                     /\ received["total_steps"] = "3"
                     /\ received["next_step_required"] = "False"
                     /\ received["findings"] = "Starting analysis based on user request"
          ELSE received = client

\* the arguments of the tools/call cannot be read: params is no object, or
\* arguments is null
UnreadableArguments(params) ==
    \/ params.shape = "nondict"
    \/ params.shape = "object" /\ params.arguments.shape = "null"

ThinkingProviders == {"OPENAI", "GROQ", "MOONSHOT", "PERPLEXITY"}

\* the keys of SUPPORTED_MODELS whose entry has supports_extended_thinking=True
ExtendedThinkingModels(prov) ==
    CASE prov = "OPENAI" -> {"gpt-5", "gpt-5-mini", "gpt-5-nano"}
      [] prov = "GROQ" -> {"deepseek-r1-distill-llama-70b"}
      [] prov = "MOONSHOT" -> {"kimi-latest", "kimi-thinking-preview"}
      [] prov = "PERPLEXITY" -> {m.name : m \in {e \in PerplexityModels :
                                                    e.supports_extended_thinking}}

\* self.SUPPORTED_MODELS[key]: the model_name of the entry, which is its key,
\* and its supports_extended_thinking
Capabilities(prov, key) ==
    [name |-> key, supports_extended_thinking |-> key \in ExtendedThinkingModels(prov)]

\* OpenAIModelProvider.get_capabilities (lines 230-266): the name as a key,
\* the resolved name as a key, the resolved name as the model_name of an entry
OpenAIGetCapabilities(allowed, name) ==
    LET resolved_name == ResolveModelName("OPENAI", name)
        keys == SUPPORTED_MODELS("OPENAI")
    IN IF name \in keys
       THEN IF ~IsAllowed(allowed, name, name) THEN Raises("ValueError")
            ELSE Ok(Capabilities("OPENAI", name))
       ELSE IF resolved_name \in keys
       THEN IF ~IsAllowed(allowed, resolved_name, name) THEN Raises("ValueError")
            ELSE Ok(Capabilities("OPENAI", resolved_name))
       ELSE IF \E key \in keys : resolved_name = Capabilities("OPENAI", key).name
       THEN LET key == CHOOSE k \in keys : resolved_name = Capabilities("OPENAI", k).name
            IN IF ~IsAllowed(allowed, key, name) THEN Raises("ValueError")
               ELSE Ok(Capabilities("OPENAI", key))
       ELSE Raises("ValueError")

\* GroqProvider.get_capabilities (lines 268-287) and
\* MoonshotProvider.get_capabilities (lines 80-99)
TableGetCapabilities(prov, name) ==
    LET resolved_name == ResolveModelName(prov, name)
    IN IF resolved_name \in SUPPORTED_MODELS(prov) THEN Ok(Capabilities(prov, resolved_name))
       ELSE Raises("ValueError")

\* provider.get_capabilities(name)
GetCapabilities(prov, allowed, name) ==
    CASE prov = "OPENAI" -> OpenAIGetCapabilities(allowed, name)
      [] prov = "PERPLEXITY" -> PerplexityGetCapabilities(allowed, name)
      [] OTHER -> TableGetCapabilities(prov, name)

\* OpenAIModelProvider.supports_thinking_mode (lines 313-320)
OpenAISupportsThinkingMode(name) ==
    ResolveModelName("OPENAI", name) \in {"gpt-5", "gpt-5-mini"}

\* GroqProvider.supports_thinking_mode (lines 356-372) and
\* MoonshotProvider.supports_thinking_mode (lines 129-145)
TableSupportsThinkingMode(prov, name) ==
    LET capabilities_ == TableGetCapabilities(prov, name)
    IN IF capabilities_.raised = "ValueError" THEN FALSE
       ELSE capabilities_.value.supports_extended_thinking

\* provider.supports_thinking_mode(name)
SupportsThinkingMode(prov, allowed, name) ==
    CASE prov = "OPENAI" -> OpenAISupportsThinkingMode(name)
      [] prov = "PERPLEXITY" -> PerplexitySupportsThinkingMode(allowed, name)
      [] OTHER -> TableSupportsThinkingMode(prov, name)

\* the most names of an allow-list of this specification
MaxThinkingAllowed == 1

\* no allow-list, or an allow-list of keys, aliases and unsupported names
ThinkingAllowLists(prov) == ListsUpTo(ModelNameInputs(prov), MaxThinkingAllowed)

InitThinking ==
    /\ provider \in ThinkingProviders
    /\ allowed_models \in ThinkingAllowLists(provider)
    /\ model_name = None
    /\ is_valid = FALSE
    /\ InitRestIdle
    /\ InitHttp
    /\ InitChunkIdle

\* provider.get_capabilities(name)
CallProviderGetCapabilities(name) ==
    /\ model_name = None
    /\ model_name' = name
    /\ capabilities' = GetCapabilities(provider, allowed_models, name)
    /\ UNCHANGED <<provider, allowed_models, is_valid, chunkVars, httpVars, authVars,
                   researchVars, prefVars, resolveVars, kwargs, max_output_tokens, thinking, perplexity_params,
                   parent_calls, vendor_calls, parent_result, generated>>

\* provider.supports_thinking_mode, with the same name
CallProviderSupportsThinkingMode ==
    /\ model_name # None
    /\ ~thinking.called
    /\ thinking' = Ok(SupportsThinkingMode(provider, allowed_models, model_name))
    /\ UNCHANGED <<modelVars, chunkVars, httpVars, authVars, researchVars, prefVars, resolveVars, kwargs,
                   max_output_tokens, capabilities, perplexity_params, parent_calls,
                   vendor_calls, parent_result, generated>>

NextThinking ==
    \/ \E name \in ModelNameInputs(provider) : CallProviderGetCapabilities(name)
    \/ CallProviderSupportsThinkingMode

SpecThinking == InitThinking /\ [][NextThinking]_vars

\* C28: for each of the four providers and every key or alias of a supported
\* model that the restriction policy allows, supports_thinking_mode(name) is
\* the supports_extended_thinking of the capability record
\* get_capabilities(name) returns; for every unsupported name it is false.
C28_ThinkingAgreesWithCapabilities ==
    (capabilities.called /\ thinking.called) =>
        /\ capabilities.raised = None =>
              thinking.value = capabilities.value.supports_extended_thinking
        /\ ModelsNamed(provider, model_name) = {} => thinking.value = FALSE

\* what the code does: as C28, except for gpt-5-nano and its aliases, for which
\* the record says True and OpenAIModelProvider.supports_thinking_mode False
ThinkingAgreesButForNano ==
    (capabilities.called /\ thinking.called) =>
        /\ capabilities.raised = None =>
              IF provider = "OPENAI" /\ capabilities.value.name = "gpt-5-nano"
              THEN capabilities.value.supports_extended_thinking /\ thinking.value = FALSE
              ELSE thinking.value = capabilities.value.supports_extended_thinking
        /\ ModelsNamed(provider, model_name) = {} => thinking.value = FALSE


(***************************************************************************)
(* SpecPreferred: OpenAIModelProvider.get_preferred_model is called once   *)
(* with a category and a list of allowed models.                           *)
(***************************************************************************)

\* the members of ToolModelCategory
ToolModelCategories == {"EXTENDED_REASONING", "FAST_RESPONSE", "BALANCED"}

\* the models a list handed to get_preferred_model is made of: the preferred
\* ones and one that is on no preference list
PreferredInputs == {"o3", "o3-pro", "gpt-5", "gpt-5-mini", "o4-mini", "o3-mini", "gpt-4.1"}

\* the lists of at most k of the names, repetitions included
RECURSIVE SeqsUpTo(_, _)
SeqsUpTo(names, k) ==
    IF k = 0 THEN {<<>>}
    ELSE LET shorter == SeqsUpTo(names, k - 1)
         IN shorter \cup {Append(list, name) : list \in shorter, name \in names}

\* a find_first that finds nothing
MutFindFirst(preferences, allowed) == None

\* find_first(preferences): the first model of the preference list that is in
\* allowed_models, else None
RECURSIVE FindFirst(_, _)
FindFirst(preferences, allowed) ==
    IF preferences = <<>> THEN None
    ELSE IF \E i \in 1..Len(allowed) : allowed[i] = Head(preferences)
         THEN Head(preferences)
         ELSE FindFirst(Tail(preferences), allowed)

\* OpenAIModelProvider.get_preferred_model(category, allowed_models)
GetPreferredModel(cat, allowed) ==
    IF allowed = <<>> THEN None
    ELSE IF cat = "EXTENDED_REASONING"
         THEN LET found == FindFirst(<<"o3", "o3-pro", "gpt-5">>, allowed)
              IN IF found # None THEN found ELSE allowed[1]
    ELSE IF cat = "FAST_RESPONSE"
         THEN LET found == FindFirst(<<"gpt-5", "gpt-5-mini", "o4-mini", "o3-mini">>, allowed)
              IN IF found # None THEN found ELSE allowed[1]
    ELSE LET found == FindFirst(<<"gpt-5", "gpt-5-mini", "o4-mini", "o3-mini">>, allowed)
         IN IF found # None THEN found ELSE allowed[1]

InitPreferred ==
    /\ category \in ToolModelCategories
    /\ allowed_list \in SeqsUpTo(PreferredInputs, MaxAllowed)
    /\ preferred = NoResult
    /\ InitCallsIdle
    /\ InitAuthIdle
    /\ InitResearchIdle
    /\ InitResolveIdle
    /\ InitModelsOnly
    /\ InitHttp
    /\ InitChunkIdle

\* provider.get_preferred_model(category, allowed_models)
CallGetPreferredModel ==
    /\ ~preferred.called
    /\ preferred' = Ok(GetPreferredModel(category, allowed_list))
    /\ UNCHANGED <<category, allowed_list, modelVars, chunkVars, httpVars, callVars, authVars,
                   researchVars, resolveVars>>

NextPreferred == CallGetPreferredModel

SpecPreferred == InitPreferred /\ [][NextPreferred]_vars

\* the preference order the categories have
PreferenceOrder(cat) ==
    IF cat = "EXTENDED_REASONING" THEN <<"o3", "o3-pro", "gpt-5">>
    ELSE <<"gpt-5", "gpt-5-mini", "o4-mini", "o3-mini">>

DeclaringModels(name) == {m \in PerplexityModels : name \in m.aliases}

\* C30: Perplexity alias resolution is consistent and idempotent: for every
\* model m of SUPPORTED_MODELS and every alias a of its aliases list,
\* _resolve_model_name(a) = m; every alias resolves to exactly one model;
\* canonical names and unknown names are returned unchanged; and resolving
\* the result once more returns the result.
C30_AliasResolution ==
    /\ resolved.called =>
          /\ resolved.raised = None
          /\ \A m \in DeclaringModels(model_name) : resolved.value = m.name
          /\ Cardinality(DeclaringModels(model_name)) <= 1
          /\ model_name \in SUPPORTED_MODELS("PERPLEXITY") => resolved.value = model_name
          /\ (model_name \notin SUPPORTED_MODELS("PERPLEXITY") /\ DeclaringModels(model_name) = {})
                => resolved.value = model_name
    /\ resolved_again.called =>
          /\ resolved_again.raised = None
          /\ resolved_again.value = resolved.value

\* C30 witness: the alias deep-research has been resolved to
\* sonar-deep-research, and that name has been resolved to itself
C30_Witness ==
    /\ model_name = "deep-research"
    /\ resolved.called
    /\ resolved.value = "sonar-deep-research"
    /\ resolved_again.called
    /\ resolved_again.value = "sonar-deep-research"
====
